---------------------------- MODULE Spec2Model ----------------------------
(***************************************************************************)
(* Model of the ADW test workflow (adws/adw_test.py): main(), the primary  *)
(* (unit) resolution loop run_tests_with_resolution with                   *)
(* resolve_failed_tests, and the end-to-end resolution loop                *)
(* run_e2e_tests_with_resolution with run_e2e_tests and                    *)
(* resolve_failed_e2e_tests.                                               *)
(*                                                                         *)
(* The agent executor (execute_template), the issue comment sink           *)
(* (make_issue_comment), git and the file system are the environment:      *)
(* their answers are chosen nondeterministically from small sets.          *)
(***************************************************************************)
EXTENDS Integers, Sequences, FiniteSets, TLC

\* ------------------------------------------------------------------------
\* Bounds of the model (not program constants)
\* ------------------------------------------------------------------------

\* Largest number of test cases one verifier answer may list.
MaxTests == 2

\* ------------------------------------------------------------------------
\* Program constants
\* ------------------------------------------------------------------------

MAX_TEST_RETRY_ATTEMPTS == 4

MAX_E2E_TEST_RETRY_ATTEMPTS == 2

\* ------------------------------------------------------------------------
\* Data
\* ------------------------------------------------------------------------

\* Python's None for an optional value: the empty sequence; a value v that
\* is present is << v >>.
None == <<>>

\* exit_code while the process has not exited.
NotExited == -1

TestNames == 1..MaxTests

\* data_types.TestResult, reduced to the fields adw_test.py reads.
TestResult == [test_name : TestNames, passed : BOOLEAN]

\* Result sets: finite lists of outcomes whose names are unique in the list.
TestLists ==
    UNION { { s \in [1..n -> TestResult] :
                \A i, j \in 1..n : s[i].test_name = s[j].test_name => i = j }
            : n \in 0..MaxTests }

\* AgentPromptResponse.output of the /test command: text that either embeds
\* a JSON list of TestResult or is not parsable at all.
Garbage == [parsable |-> FALSE, tests |-> <<>>]

TestOutputs == { [parsable |-> TRUE, tests |-> s] : s \in TestLists } \cup {Garbage}

\* Output text that comes with an execution error: an error message, or an
\* error message that happens to embed a well-formed result list.
ErrorOutputs ==
    { Garbage,
      [parsable |-> TRUE, tests |-> << [test_name |-> 1, passed |-> FALSE] >>] }

\* AgentPromptResponse of the /test command.
TestResponses ==
    { [success |-> TRUE, output |-> o] : o \in TestOutputs }
      \cup { [success |-> FALSE, output |-> o] : o \in ErrorOutputs }

\* data_types.E2ETestResult as built by run_e2e_tests; cause tells which
\* branch of run_e2e_tests built it.
E2ETestResult ==
    [test_name : {"e2e_suite"}, status : {"passed", "failed"},
     cause : {"reported", "execution_error", "parsing_error"}]

\* The answer of the /e2e_test agent call: success flag, and the output text
\* as either a JSON object with a status, or unparsable text.
E2EResponses ==
    [success : BOOLEAN, parsable : BOOLEAN, status : {"passed", "failed"}]

\* Kinds of comments sent to make_issue_comment.
CommentKinds ==
    { "checkout_failed", "starting", "running_tests",
      "error_running_tests", "found_failed", "attempting", "resolved",
      "failed_to_resolve", "resolved_summary", "rerunning", "max_attempts",
      "final_test_results", "skip_e2e_failures", "skip_e2e_flag",
      "starting_e2e",
      "e2e_found_failed", "e2e_attempting", "e2e_resolved",
      "e2e_failed_to_resolve", "e2e_resolved_summary", "e2e_rerunning",
      "e2e_max_attempts",
      "pushed", "completed_with_failures", "all_passed" }

\* ------------------------------------------------------------------------
\* Pure helpers
\* ------------------------------------------------------------------------

RECURSIVE CountPassed(_)
\* sum(1 for test in results if test.passed)
CountPassed(results) ==
    IF results = <<>> THEN 0
    ELSE (IF Head(results).passed THEN 1 ELSE 0) + CountPassed(Tail(results))

\* utils.parse_json(output, List[TestResult]): the list, or an exception.
parse_json(output) ==
    IF output.parsable THEN [ok |-> TRUE, value |-> output.tests]
    ELSE [ok |-> FALSE, value |-> <<>>]

\* parse_test_results: (results, passed_count, failed_count); ([], 0, 0) when
\* parsing raises.
parse_test_results(output) ==
    LET p == parse_json(output) IN
    IF p.ok
    THEN [results |-> p.value,
          passed_count |-> CountPassed(p.value),
          failed_count |-> Len(p.value) - CountPassed(p.value)]
    ELSE [results |-> <<>>, passed_count |-> 0, failed_count |-> 0]

IsFailedMutant(test) == TRUE
\* the filter `not test.passed` of the failed_tests comprehension
IsFailed(test) == ~test.passed

\* failed_tests = [test for test in results if not test.passed]
FailedTests(results) == SelectSeq(results, IsFailed)

WhileConditionMutant(att, max_attempts) == TRUE
\* while attempt < max_attempts
WhileCondition(att, max_attempts) == att < max_attempts

NextAttemptMutant(att) == att
\* attempt += 1
NextAttempt(att) == att + 1

NoFailuresMutant(failed) == failed < 0
\* if failed_count == 0: break
NoFailures(failed) == failed = 0

IsLastAttemptMutant(att, max_attempts) == att > max_attempts
\* if attempt == max_attempts: break
IsLastAttempt(att, max_attempts) == att = max_attempts

ExecutionErrorMutant(resp) == FALSE
\* if not test_response.success: ... break
ExecutionError(resp) == ~resp.success

ResolvedSomethingMutant(resolved) == resolved >= 0
\* if resolved > 0: ... else: break
ResolvedSomething(resolved) == resolved > 0

\* E2ETestResult.passed
E2EPassed(test) == test.status = "passed"

RECURSIVE CountE2EPassed(_)
\* sum(1 for test in results if test.passed), E2E tier
CountE2EPassed(results) ==
    IF results = <<>> THEN 0
    ELSE (IF E2EPassed(Head(results)) THEN 1 ELSE 0)
            + CountE2EPassed(Tail(results))

E2EIsFailed(test) == ~E2EPassed(test)

\* failed_tests = [test for test in results if not test.passed], E2E tier
E2EFailedTests(results) == SelectSeq(results, E2EIsFailed)

\* ------------------------------------------------------------------------
\* State
\* ------------------------------------------------------------------------

VARIABLES
    pc,                 \* position of main()
    skip_e2e,           \* --skip-e2e flag
    state_branch,       \* TRUE iff the loaded ADWState holds a branch_name
    exit_code,          \* NotExited while running, then the exit code
    \* run_tests_with_resolution locals (returned to main)
    attempt, results, passed_count, failed_count, test_response,
    \* resolve_failed_tests locals
    failed_tests, idx, resolved_count, unresolved_count,
    \* run_e2e_tests_with_resolution locals (returned to main)
    e2e_attempt, e2e_results, e2e_passed_count, e2e_failed_count,
    \* resolve_failed_e2e_tests locals
    e2e_failed_tests, e2e_idx, e2e_resolved_count, e2e_unresolved_count,
    \* observation of the run
    loop_state,         \* per tier: NotStarted, Running, Converged, ...
    calls,              \* number of collaborator calls, per kind
    comments,           \* number of comments posted, per kind
    hist,               \* primary tier: one record per verifier call
    e2e_hist,           \* E2E tier: one record per loop iteration
    round_log,          \* remediator calls since the last verifier call
    reported_error,     \* output carried by the "Error running tests" comment
    closing_comment     \* lines of the closing comment of main()

\* worktree_ops.allocate_ports under test
VARIABLES
    adw_id,             \* the identifier handed to allocate_ports
    port_log            \* results of the allocate_ports calls made so far

portVars == << adw_id, port_log >>

\* worktree_ops.py: the worktrees under trees/ and the callers of
\* create_worktree, remove_worktree and cleanup_stale_worktrees
VARIABLES
    tree,               \* per identifier: the directory trees/<id>
    trees_dir,          \* TRUE iff the directory trees/ exists
    stray_file,         \* TRUE iff trees/ holds an entry that is no directory
    env_local,          \* TRUE iff <project root>/.env.local exists
    clock,              \* time.time(), in seconds
    wpc,                \* per caller: position inside the running call
    frame,              \* per caller: arguments and effects of the running call
    sweep,              \* per caller: locals of cleanup_stale_worktrees
    last,               \* per caller: outcome of the last finished call
    created             \* per identifier: outcome of the last create_worktree

wtVars ==
    << tree, trees_dir, stray_file, env_local, clock, wpc, frame, sweep,
       last, created >>

\* State of the other components (worktree_ops.py, concurrent runs); the
\* test workflow leaves it alone.
\* adw_test.py run as several processes: the checkouts they act on
VARIABLES
    script_root,        \* per run: the checkout holding its adw_test.py
    head,               \* per checkout: the branch checked out
    work,               \* per checkout: runs with uncommitted changes in it
    commits,            \* per branch: runs whose changes are committed on it
    pushed,             \* per branch: runs whose changes are on origin
    rpc,                \* per run: position in main()
    rattempt,           \* per run: attempt of run_tests_with_resolution
    observed            \* per run: what its last test run was run on

runVars ==
    << script_root, head, work, commits, pushed, rpc, rattempt, observed >>

\* model_selection.get_model, worktree_ops.get_worktree_path and
\* worktree_ops.list_worktrees under test
VARIABLES
    sel_args,           \* the arguments handed to get_model
    sel_log,            \* results of the get_model calls made so far
    adw_id2,            \* a second identifier, next to adw_id
    path_log,           \* get_worktree_path of adw_id and of adw_id2
    listing,            \* the entries git worktree list reports
    listed              \* results of the list_worktrees calls made so far

selVars == << sel_args, sel_log >>

pairVars == << adw_id2, path_log >>

listVars == << listing, listed >>

pureVars == << selVars, pairVars, listVars >>

otherVars == << portVars, wtVars, runVars, pureVars >>

\* The identifiers worktrees are made for; "g" is no hex digit.
WtIds == { << "f", "A" >>, << "g" >> }

\* The processes calling into worktree_ops.py.
Procs == {1, 2}

\* The outcome of a call that raised.
Raised == [ok |-> FALSE, backend |-> 0, frontend |-> 0]

\* A worktree directory that does not exist.
Absent ==
    [present |-> FALSE, mtime |-> 0, env_local |-> FALSE,
     ports_env |-> <<>>, installed |-> FALSE]

\* Calls made to the collaborators and files written, in one call.
NoEffects == [add |-> 0, env |-> 0, ports |-> 0, install |-> 0, rm |-> 0]

NoFrame ==
    [op |-> "none", id |-> <<>>, hours |-> 0, found_present |-> FALSE,
     eff |-> NoEffects]

NoSweep ==
    [todo |-> <<>>, cur |-> <<>>, now |-> 0, cleaned |-> 0, scanned |-> {},
     fresh |-> {}, attempted |-> {}, removed |-> {}, failed |-> {}]

\* No path: what a call returns that returns no path.
NoPath == [anchor |-> "", parts |-> <<>>]

NoReturn ==
    [op |-> "none", id |-> <<>>, hours |-> 0, outcome |-> "none",
     path |-> NoPath, ports |-> Raised, flag |-> FALSE, count |-> 0,
     found_present |-> FALSE, eff |-> NoEffects, sweep |-> NoSweep]

NoCreate == [outcome |-> "none", path |-> NoPath, ports |-> Raised, add |-> 0]

\* The concurrent runs of adw_test.py, and the branch of each.
Runs == {1, 2}

\* The checkouts a run can be started from: the repository's main checkout,
\* and a second checkout of it with its own copy of adws/.
Roots == {"repo", "copy"}

\* Branches: 0 is checked out before any run, r is run r's branch_name.
Branches == {0} \cup Runs

RunsIdle ==
    /\ script_root = [r \in Runs |-> "repo"]
    /\ head = [d \in Roots |-> 0]
    /\ work = [d \in Roots |-> {}]
    /\ commits = [b \in Branches |-> {}]
    /\ pushed = [b \in Branches |-> {}]
    /\ rpc = [r \in Runs |-> "start"]
    /\ rattempt = [r \in Runs |-> 0]
    /\ observed = [r \in Runs |-> [branch |-> r, changes |-> {}]]

PureIdle ==
    /\ sel_args = [command |-> "", model_set |-> <<>>, force_model |-> <<>>]
    /\ sel_log = <<>>
    /\ adw_id2 = <<>>
    /\ path_log = <<>>
    /\ listing = <<>>
    /\ listed = <<>>

PortsIdle ==
    /\ adw_id = <<>>
    /\ port_log = <<>>

WtIdle ==
    /\ tree = [id \in WtIds |-> Absent]
    /\ trees_dir = FALSE
    /\ stray_file = FALSE
    /\ env_local = FALSE
    /\ clock = 0
    /\ wpc = [p \in Procs |-> "idle"]
    /\ frame = [p \in Procs |-> NoFrame]
    /\ sweep = [p \in Procs |-> NoSweep]
    /\ last = [p \in Procs |-> NoReturn]
    /\ created = [id \in WtIds |-> NoCreate]

\* The other components at rest.
OthersIdle ==
    /\ PortsIdle
    /\ WtIdle
    /\ RunsIdle
    /\ PureIdle

workflowVars ==
    << pc, skip_e2e, state_branch, exit_code,
       attempt, results, passed_count, failed_count, test_response,
       failed_tests, idx, resolved_count, unresolved_count,
       e2e_attempt, e2e_results, e2e_passed_count, e2e_failed_count,
       e2e_failed_tests, e2e_idx, e2e_resolved_count, e2e_unresolved_count,
       loop_state, calls, comments, hist, e2e_hist, round_log,
       reported_error, closing_comment >>

vars == << workflowVars, otherVars >>

mainVars == << skip_e2e, state_branch, reported_error, closing_comment >>

unitLoopVars == << attempt, results, passed_count, failed_count, test_response >>

unitResolveVars == << failed_tests, idx, resolved_count, unresolved_count >>

e2eLoopVars == << e2e_attempt, e2e_results, e2e_passed_count, e2e_failed_count >>

e2eResolveVars ==
    << e2e_failed_tests, e2e_idx, e2e_resolved_count, e2e_unresolved_count >>

\* comments after posting one comment of each kind in the sequence ks
RECURSIVE Post(_, _)
Post(c, ks) ==
    IF ks = <<>> THEN c
    ELSE Post([c EXCEPT ![Head(ks)] = @ + 1], Tail(ks))

Init ==
    /\ pc = "setup"
    /\ skip_e2e \in BOOLEAN
    /\ state_branch \in BOOLEAN
    /\ exit_code = NotExited
    /\ attempt = 0
    /\ results = <<>>
    /\ passed_count = 0
    /\ failed_count = 0
    /\ test_response = None
    /\ failed_tests = <<>>
    /\ idx = 0
    /\ resolved_count = 0
    /\ unresolved_count = 0
    /\ e2e_attempt = 0
    /\ e2e_results = <<>>
    /\ e2e_passed_count = 0
    /\ e2e_failed_count = 0
    /\ e2e_failed_tests = <<>>
    /\ e2e_idx = 0
    /\ e2e_resolved_count = 0
    /\ e2e_unresolved_count = 0
    /\ loop_state = [unit |-> "NotStarted", e2e |-> "NotStarted"]
    /\ calls = [verifier |-> 0, parse |-> 0, remediator |-> 0,
                e2e_verifier |-> 0, e2e_remediator |-> 0,
                commit |-> 0, push |-> 0]
    /\ comments = [k \in CommentKinds |-> 0]
    /\ hist = <<>>
    /\ e2e_hist = <<>>
    /\ round_log = <<>>
    /\ reported_error = None
    /\ closing_comment = None
    /\ OthersIdle


\* ------------------------------------------------------------------------
\* main(): start-up and branch handling
\* ------------------------------------------------------------------------

\* main(), from parse_args to the first verifier call: check_env_vars and
\* get_repo_url may exit with 1; the branch of the state is checked out, or a
\* new test branch is created; a git failure exits with 1.  On success the
\* two opening comments are posted and run_tests_with_resolution is entered.
Setup ==
    /\ pc = "setup"
    /\ \E env_ok \in BOOLEAN, git_ok \in BOOLEAN :
        IF ~env_ok
        THEN /\ pc' = "exited"
             /\ exit_code' = 1
             /\ UNCHANGED << state_branch, loop_state, comments >>
        ELSE IF ~git_ok
        THEN /\ pc' = "exited"
             /\ exit_code' = 1
             /\ comments' = IF state_branch
                            THEN Post(comments, << "checkout_failed" >>)
                            ELSE comments
             /\ UNCHANGED << state_branch, loop_state >>
        ELSE /\ state_branch' = TRUE
             /\ comments' = Post(comments, << "starting", "running_tests" >>)
             /\ exit_code' = exit_code
             /\ IF WhileCondition(attempt, MAX_TEST_RETRY_ATTEMPTS)
                THEN /\ pc' = "run_tests"
                     /\ loop_state' = [loop_state EXCEPT !.unit = "Running"]
                ELSE /\ pc' = "unit_return"
                     /\ loop_state' = [loop_state EXCEPT !.unit = "Exhausted"]
    /\ UNCHANGED << otherVars, skip_e2e, reported_error, closing_comment,
                    unitLoopVars, unitResolveVars, e2eLoopVars,
                    e2eResolveVars, calls, hist, e2e_hist, round_log >>

\* ------------------------------------------------------------------------
\* run_tests_with_resolution (primary tier)
\* ------------------------------------------------------------------------

\* One pass of the while body up to the remediation: attempt += 1, the
\* verifier call run_tests, the break on an execution error, the parse, the
\* break on no failures and the break on the last attempt.
RunTests ==
    /\ pc = "run_tests"
    /\ \E resp \in TestResponses :
        LET att == NextAttempt(attempt)
            parsed == parse_test_results(resp.output)
            entry == [success |-> resp.success,
                      parse_ok |-> resp.success /\ resp.output.parsable,
                      failed |-> IF resp.success THEN parsed.failed_count ELSE 0,
                      remediated |-> 0, resolved |-> 0]
        IN
        /\ attempt' = att
        /\ test_response' = << resp >>
        /\ hist' = Append(hist, entry)
        /\ round_log' = <<>>
        /\ IF ExecutionError(resp)
           THEN /\ calls' = [calls EXCEPT !.verifier = @ + 1]
                /\ comments' = Post(comments, << "error_running_tests" >>)
                /\ reported_error' = << resp.output >>
                /\ loop_state' = [loop_state EXCEPT !.unit = "Aborted"]
                /\ pc' = "unit_return"
                /\ UNCHANGED << results, passed_count, failed_count,
                                unitResolveVars >>
           ELSE /\ calls' = [calls EXCEPT !.verifier = @ + 1, !.parse = @ + 1]
                /\ results' = parsed.results
                /\ UNCHANGED reported_error
                /\ passed_count' = parsed.passed_count
                /\ failed_count' = parsed.failed_count
                /\ IF NoFailures(parsed.failed_count)
                   THEN /\ loop_state' = [loop_state EXCEPT !.unit = "Converged"]
                        /\ pc' = "unit_return"
                        /\ UNCHANGED << comments, unitResolveVars >>
                   ELSE IF IsLastAttempt(att, MAX_TEST_RETRY_ATTEMPTS)
                   THEN /\ loop_state' = [loop_state EXCEPT !.unit = "Exhausted"]
                        /\ pc' = "unit_return"
                        /\ UNCHANGED << comments, unitResolveVars >>
                   ELSE /\ comments' = Post(comments, << "found_failed" >>)
                        /\ failed_tests' = FailedTests(parsed.results)
                        /\ idx' = 0
                        /\ resolved_count' = 0
                        /\ unresolved_count' = 0
                        /\ pc' = "resolve"
                        /\ UNCHANGED loop_state
    /\ UNCHANGED << otherVars, skip_e2e, state_branch, closing_comment,
                    exit_code, e2eLoopVars,
                    e2eResolveVars, e2e_hist >>

\* resolve_failed_tests: one iteration of `for idx, test in
\* enumerate(failed_tests)`: the comment, the remediator call
\* /resolve_failed_test and the count of its answer.
ResolveOne ==
    /\ pc = "resolve"
    /\ idx < Len(failed_tests)
    /\ \E success \in BOOLEAN :
        LET test == failed_tests[idx + 1] IN
        /\ calls' = [calls EXCEPT !.remediator = @ + 1]
        /\ round_log' = Append(round_log, [test_name |-> test.test_name,
                                            success |-> success])
        /\ hist' = [hist EXCEPT ![Len(hist)].remediated = @ + 1,
                                ![Len(hist)].resolved =
                                    IF success THEN @ + 1 ELSE @]
        /\ IF success
           THEN /\ resolved_count' = resolved_count + 1
                /\ unresolved_count' = unresolved_count
                /\ comments' = Post(comments, << "attempting", "resolved" >>)
           ELSE /\ unresolved_count' = unresolved_count + 1
                /\ resolved_count' = resolved_count
                /\ comments' =
                       Post(comments, << "attempting", "failed_to_resolve" >>)
    /\ idx' = idx + 1
    /\ UNCHANGED << otherVars, pc, mainVars, exit_code, unitLoopVars, failed_tests,
                    e2eLoopVars, e2eResolveVars, loop_state, e2e_hist >>

\* resolve_failed_tests returns (resolved_count, unresolved_count); the loop
\* reports the round and goes on to the next attempt if something was
\* resolved, and breaks otherwise.
ResolveReturn ==
    /\ pc = "resolve"
    /\ idx >= Len(failed_tests)
    /\ IF ResolvedSomething(resolved_count)
       THEN /\ comments' = Post(comments, << "resolved_summary", "rerunning" >>)
            /\ IF WhileCondition(attempt, MAX_TEST_RETRY_ATTEMPTS)
               THEN /\ pc' = "run_tests"
                    /\ UNCHANGED loop_state
               ELSE /\ pc' = "unit_return"
                    /\ loop_state' = [loop_state EXCEPT !.unit = "Exhausted"]
       ELSE /\ comments' = comments
            /\ pc' = "unit_return"
            /\ loop_state' = [loop_state EXCEPT !.unit = "Exhausted"]
    /\ UNCHANGED << otherVars, mainVars, exit_code, unitLoopVars, unitResolveVars,
                    e2eLoopVars, e2eResolveVars, calls, hist, e2e_hist,
                    round_log >>

\* After the while loop: the "Reached maximum retry attempts" comment and
\* the return of (results, passed_count, failed_count, test_response).  The
\* other locals of the function (failed_tests, resolved, unresolved) end
\* with the call and are back at their initial values.
UnitReturn ==
    /\ pc = "unit_return"
    /\ comments' = IF attempt = MAX_TEST_RETRY_ATTEMPTS /\ failed_count > 0
                   THEN Post(comments, << "max_attempts" >>)
                   ELSE comments
    /\ failed_tests' = <<>>
    /\ idx' = 0
    /\ resolved_count' = 0
    /\ unresolved_count' = 0
    /\ round_log' = <<>>
    /\ pc' = "report"
    /\ UNCHANGED << otherVars, mainVars, exit_code, unitLoopVars, e2eLoopVars,
                    e2eResolveVars, loop_state, calls, hist, e2e_hist >>

SkipE2EOnFailuresMutant(failed) == FALSE
\* if failed_count > 0: skip the E2E tier
SkipE2EOnFailures(failed) == failed > 0

\* main(): the final unit results comment, then the decision on the E2E
\* tier: skipped on unit failures, skipped on --skip-e2e, else entered.
Report ==
    /\ pc = "report"
    /\ IF SkipE2EOnFailures(failed_count)
       THEN /\ comments' = Post(comments,
                               << "final_test_results", "skip_e2e_failures" >>)
            /\ pc' = "commit"
            /\ UNCHANGED loop_state
       ELSE IF skip_e2e
       THEN /\ comments' = Post(comments,
                               << "final_test_results", "skip_e2e_flag" >>)
            /\ pc' = "commit"
            /\ UNCHANGED loop_state
       ELSE /\ comments' = Post(comments,
                               << "final_test_results", "starting_e2e" >>)
            /\ IF e2e_attempt < MAX_E2E_TEST_RETRY_ATTEMPTS
               THEN /\ pc' = "run_e2e"
                    /\ loop_state' = [loop_state EXCEPT !.e2e = "Running"]
               ELSE /\ pc' = "e2e_return"
                    /\ loop_state' = [loop_state EXCEPT !.e2e = "Exhausted"]
    /\ UNCHANGED << otherVars, mainVars, exit_code, unitLoopVars, unitResolveVars,
                    e2eLoopVars, e2eResolveVars, calls, hist, e2e_hist,
                    round_log >>


\* ------------------------------------------------------------------------
\* run_e2e_tests_with_resolution (end-to-end tier)
\* ------------------------------------------------------------------------

\* run_e2e_tests: [] when the glob finds no e2e/*.spec.ts file (no agent
\* call); else one /e2e_test agent call whose answer becomes a one-element
\* list: a synthetic failed "e2e_suite" on an execution error or on a
\* parsing error, else the reported status.
run_e2e_tests(files, resp) ==
    IF ~files THEN <<>>
    ELSE IF ~resp.success
    THEN << [test_name |-> "e2e_suite", status |-> "failed",
             cause |-> "execution_error"] >>
    ELSE IF resp.parsable
    THEN << [test_name |-> "e2e_suite", status |-> resp.status,
             cause |-> "reported"] >>
    ELSE << [test_name |-> "e2e_suite", status |-> "failed",
             cause |-> "parsing_error"] >>

\* One pass of the E2E while body up to the remediation: attempt += 1,
\* run_e2e_tests, the break on an empty result list, the counts, the break
\* on no failures and the break on the last attempt.
RunE2E ==
    /\ pc = "run_e2e"
    /\ \E files \in BOOLEAN, resp \in E2EResponses :
        LET att == e2e_attempt + 1
            res == run_e2e_tests(files, resp)
            passed == CountE2EPassed(res)
            failed == Len(res) - passed
            entry == [called |-> files, success |-> files /\ resp.success,
                      failed |-> IF res = <<>> THEN 0 ELSE failed,
                      remediated |-> 0, resolved |-> 0]
        IN
        /\ e2e_attempt' = att
        /\ e2e_results' = res
        /\ e2e_hist' = Append(e2e_hist, entry)
        /\ calls' = IF files THEN [calls EXCEPT !.e2e_verifier = @ + 1]
                    ELSE calls
        /\ IF res = <<>>
           THEN /\ loop_state' =
                      [loop_state EXCEPT !.e2e = IF e2e_failed_count = 0
                                                 THEN "Converged"
                                                 ELSE "Exhausted"]
                /\ pc' = "e2e_return"
                /\ UNCHANGED << e2e_passed_count, e2e_failed_count, comments,
                                e2eResolveVars >>
           ELSE /\ e2e_passed_count' = passed
                /\ e2e_failed_count' = failed
                /\ IF failed = 0
                   THEN /\ loop_state' = [loop_state EXCEPT !.e2e = "Converged"]
                        /\ pc' = "e2e_return"
                        /\ UNCHANGED << comments, e2eResolveVars >>
                   ELSE IF att = MAX_E2E_TEST_RETRY_ATTEMPTS
                   THEN /\ loop_state' = [loop_state EXCEPT !.e2e = "Exhausted"]
                        /\ pc' = "e2e_return"
                        /\ UNCHANGED << comments, e2eResolveVars >>
                   ELSE /\ comments' = Post(comments, << "e2e_found_failed" >>)
                        /\ e2e_failed_tests' = E2EFailedTests(res)
                        /\ e2e_idx' = 0
                        /\ e2e_resolved_count' = 0
                        /\ e2e_unresolved_count' = 0
                        /\ pc' = "e2e_resolve"
                        /\ UNCHANGED loop_state
    /\ UNCHANGED << otherVars, mainVars, exit_code, unitLoopVars, unitResolveVars, hist,
                    round_log >>

\* resolve_failed_e2e_tests: one iteration of the for loop: the comment, the
\* remediator call /resolve_failed_e2e_test and the count of its answer.
E2EResolveOne ==
    /\ pc = "e2e_resolve"
    /\ e2e_idx < Len(e2e_failed_tests)
    /\ \E success \in BOOLEAN :
        /\ calls' = [calls EXCEPT !.e2e_remediator = @ + 1]
        /\ e2e_hist' = [e2e_hist EXCEPT ![Len(e2e_hist)].remediated = @ + 1,
                                        ![Len(e2e_hist)].resolved =
                                            IF success THEN @ + 1 ELSE @]
        /\ IF success
           THEN /\ e2e_resolved_count' = e2e_resolved_count + 1
                /\ e2e_unresolved_count' = e2e_unresolved_count
                /\ comments' =
                       Post(comments, << "e2e_attempting", "e2e_resolved" >>)
           ELSE /\ e2e_unresolved_count' = e2e_unresolved_count + 1
                /\ e2e_resolved_count' = e2e_resolved_count
                /\ comments' = Post(comments, << "e2e_attempting",
                                                 "e2e_failed_to_resolve" >>)
    /\ e2e_idx' = e2e_idx + 1
    /\ UNCHANGED << otherVars, pc, mainVars, exit_code, unitLoopVars, unitResolveVars,
                    e2eLoopVars, e2e_failed_tests, loop_state, hist,
                    round_log >>

\* resolve_failed_e2e_tests returns; the E2E loop reports the round and goes
\* on to the next attempt if something was resolved, and breaks otherwise.
E2EResolveReturn ==
    /\ pc = "e2e_resolve"
    /\ e2e_idx >= Len(e2e_failed_tests)
    /\ IF e2e_resolved_count > 0
       THEN /\ comments' = Post(comments,
                               << "e2e_resolved_summary", "e2e_rerunning" >>)
            /\ IF e2e_attempt < MAX_E2E_TEST_RETRY_ATTEMPTS
               THEN /\ pc' = "run_e2e"
                    /\ UNCHANGED loop_state
               ELSE /\ pc' = "e2e_return"
                    /\ loop_state' = [loop_state EXCEPT !.e2e = "Exhausted"]
       ELSE /\ comments' = comments
            /\ pc' = "e2e_return"
            /\ loop_state' = [loop_state EXCEPT !.e2e = "Exhausted"]
    /\ UNCHANGED << otherVars, mainVars, exit_code, unitLoopVars, unitResolveVars,
                    e2eLoopVars, e2eResolveVars, calls, hist, e2e_hist,
                    round_log >>

\* After the E2E while loop: the "Reached maximum E2E retry attempts"
\* comment and the return of (results, passed_count, failed_count) to main.
\* The other locals of the function end with the call and are back at their
\* initial values.
E2EReturn ==
    /\ pc = "e2e_return"
    /\ comments' = IF e2e_attempt = MAX_E2E_TEST_RETRY_ATTEMPTS
                      /\ e2e_failed_count > 0
                   THEN Post(comments, << "e2e_max_attempts" >>)
                   ELSE comments
    /\ e2e_failed_tests' = <<>>
    /\ e2e_idx' = 0
    /\ e2e_resolved_count' = 0
    /\ e2e_unresolved_count' = 0
    /\ pc' = "commit"
    /\ UNCHANGED << otherVars, mainVars, exit_code, unitLoopVars, unitResolveVars,
                    e2eLoopVars, loop_state, calls, hist, e2e_hist,
                    round_log >>

\* ------------------------------------------------------------------------
\* main(): commit, push and exit
\* ------------------------------------------------------------------------

\* git_commit and git_push; neither failure stops the run; a successful
\* push is reported with a comment.
CommitPush ==
    /\ pc = "commit"
    /\ \E commit_ok \in BOOLEAN, push_ok \in BOOLEAN :
        /\ calls' = [calls EXCEPT !.commit = @ + 1, !.push = @ + 1]
        /\ comments' = IF push_ok THEN Post(comments, << "pushed" >>)
                       ELSE comments
    /\ pc' = "finish"
    /\ UNCHANGED << otherVars, mainVars, exit_code, unitLoopVars, unitResolveVars,
                    e2eLoopVars, e2eResolveVars, loop_state, hist, e2e_hist,
                    round_log >>

ExitCodeMutant(total_failures) == 0
\* sys.exit(1) if total_failures > 0, else main returns (exit code 0)
ExitCode(total_failures) == IF total_failures > 0 THEN 1 ELSE 0

\* main(): total_failures = failed_count + e2e_failed_count, the closing
\* comment and the exit code.
Finish ==
    /\ pc = "finish"
    /\ LET total_failures == failed_count + e2e_failed_count IN
        /\ exit_code' = ExitCode(total_failures)
        /\ comments' = IF total_failures > 0
                       THEN Post(comments, << "completed_with_failures" >>)
                       ELSE Post(comments, << "all_passed" >>)
        /\ closing_comment' =
              IF total_failures > 0
              THEN << [unit_line |-> failed_count > 0,
                       e2e_line |-> e2e_failed_count > 0] >>
              ELSE << [unit_line |-> TRUE, e2e_line |-> e2e_results # <<>>] >>
    /\ pc' = "exited"
    /\ UNCHANGED << otherVars, skip_e2e, state_branch, reported_error,
                    unitLoopVars, unitResolveVars, e2eLoopVars,
                    e2eResolveVars, loop_state, calls, hist, e2e_hist,
                    round_log >>

Next ==
    \/ Setup
    \/ RunTests
    \/ ResolveOne
    \/ ResolveReturn
    \/ UnitReturn
    \/ Report
    \/ RunE2E
    \/ E2EResolveOne
    \/ E2EResolveReturn
    \/ E2EReturn
    \/ CommitPush
    \/ Finish

Spec == Init /\ [][Next]_vars

TypeOK ==
    /\ pc \in { "setup", "run_tests", "resolve", "unit_return", "report",
                "run_e2e", "e2e_resolve", "e2e_return", "commit", "finish",
                "exited" }
    /\ exit_code \in {NotExited, 0, 1}
    /\ results \in TestLists
    /\ test_response \in { << r >> : r \in TestResponses } \cup {None}
    /\ e2e_results \in Seq(E2ETestResult)
    /\ Len(e2e_results) <= 1


\* ------------------------------------------------------------------------
\* Vocabulary of the properties
\* ------------------------------------------------------------------------

FinalStates == {"Converged", "Exhausted", "Aborted"}

\* main() is past run_tests_with_resolution
UnitReturned ==
    /\ loop_state.unit # "NotStarted"
    /\ pc \in {"report", "run_e2e", "e2e_resolve", "e2e_return", "commit",
               "finish", "exited"}

\* main() is past the E2E tier (whether it ran or was skipped)
E2EReturned ==
    /\ loop_state.unit # "NotStarted"
    /\ pc \in {"commit", "finish", "exited"}

E2EStarted ==
    \/ loop_state.e2e # "NotStarted"
    \/ e2e_attempt > 0
    \/ calls.e2e_verifier > 0
    \/ calls.e2e_remediator > 0

\* Names of the failing outcomes of a result list, in list order.
RECURSIVE FailingNames(_)
FailingNames(rs) ==
    IF rs = <<>> THEN <<>>
    ELSE IF Head(rs).passed THEN FailingNames(Tail(rs))
    ELSE << Head(rs).test_name >> \o FailingNames(Tail(rs))

\* Number of attempts of a history in which the remediator was called.
RECURSIVE Rounds(_)
Rounds(h) ==
    IF h = <<>> THEN 0
    ELSE (IF Head(h).remediated > 0 THEN 1 ELSE 0) + Rounds(Tail(h))

\* Longest a remediation round can be, plus the steps around it.
RoundSpan == MaxTests + 3

\* Number of steps main() can still take, at most: a variant that every step
\* must decrease.
Measure ==
    LET e2eSpan == MAX_E2E_TEST_RETRY_ATTEMPTS * RoundSpan
        unitSpan == MAX_TEST_RETRY_ATTEMPTS * RoundSpan
    IN
    CASE pc = "exited" -> 0
      [] pc = "finish" -> 1
      [] pc = "commit" -> 2
      [] pc = "e2e_return" -> 3
      [] pc = "run_e2e" ->
            4 + (MAX_E2E_TEST_RETRY_ATTEMPTS - e2e_attempt) * RoundSpan
      [] pc = "e2e_resolve" ->
            5 + (MAX_E2E_TEST_RETRY_ATTEMPTS - e2e_attempt) * RoundSpan
              + (Len(e2e_failed_tests) - e2e_idx)
      [] pc = "report" -> 5 + e2eSpan
      [] pc = "unit_return" -> 6 + e2eSpan
      [] pc = "run_tests" ->
            7 + e2eSpan + (MAX_TEST_RETRY_ATTEMPTS - attempt) * RoundSpan
      [] pc = "resolve" ->
            8 + e2eSpan + (MAX_TEST_RETRY_ATTEMPTS - attempt) * RoundSpan
              + (Len(failed_tests) - idx)
      [] pc = "setup" -> 9 + e2eSpan + unitSpan

\* ------------------------------------------------------------------------
\* C1
\* ------------------------------------------------------------------------

C1_Bounds ==
    /\ attempt <= MAX_TEST_RETRY_ATTEMPTS
    /\ calls.verifier = attempt
    /\ e2e_attempt <= MAX_E2E_TEST_RETRY_ATTEMPTS
    /\ calls.e2e_verifier <= e2e_attempt
    /\ Measure >= 0
    /\ UnitReturned =>
          /\ loop_state.unit \in FinalStates
          /\ (loop_state.unit = "Aborted") = ~test_response[1].success
          /\ loop_state.unit = "Converged" => failed_count = 0
          /\ loop_state.unit = "Exhausted" => failed_count > 0
    /\ (E2EReturned /\ E2EStarted) =>
          /\ loop_state.e2e \in FinalStates
          /\ loop_state.e2e = "Converged" => e2e_failed_count = 0
          /\ loop_state.e2e = "Exhausted" => e2e_failed_count > 0

\* C1: whatever the verifier and the remediator answer, both loops
\* terminate: every step of the run decreases a non-negative variant, the
\* attempt counter never exceeds N (4 primary, 2 E2E), there is one primary
\* verifier call per attempt and at most one E2E verifier call per attempt,
\* and a loop that has returned is in exactly one of Converged, Exhausted
\* and Aborted, as its returned values show.
C1_TerminatesWithinN ==
    /\ []C1_Bounds
    /\ [][Measure' < Measure]_vars

\* Both loops used all their attempts: 4 primary and 2 E2E verifier calls.
C1_Witness ==
    /\ pc = "exited"
    /\ calls.verifier = MAX_TEST_RETRY_ATTEMPTS
    /\ calls.e2e_verifier = MAX_E2E_TEST_RETRY_ATTEMPTS
    /\ loop_state.unit = "Converged"
    /\ loop_state.e2e = "Exhausted"


\* ------------------------------------------------------------------------
\* C2
\* ------------------------------------------------------------------------

\* C2: a successful verifier call with failed-count 0 is the last verifier
\* call of the primary loop: no remediator call follows it and the loop is
\* Converged; when that happens on attempt 1 the loop made exactly 1
\* verifier call and 0 remediator calls and returns failed-count 0.
C2_FirstGreenIsLast ==
    /\ \A k \in 1..Len(hist) :
          (hist[k].success /\ hist[k].failed = 0) =>
             /\ k = Len(hist)
             /\ hist[k].remediated = 0
             /\ pc \notin {"run_tests", "resolve"}
             /\ loop_state.unit = "Converged"
             /\ failed_count = 0
    /\ (Len(hist) >= 1 /\ hist[1].success /\ hist[1].failed = 0) =>
          /\ calls.verifier = 1
          /\ calls.remediator = 0
          /\ attempt = 1

\* The verifier reported a parsed, all-passing result on attempt 1 and the
\* run has ended.
C2_Witness ==
    /\ pc = "exited"
    /\ Len(hist) = 1
    /\ hist[1].success
    /\ hist[1].parse_ok
    /\ hist[1].failed = 0
    /\ Len(results) = MaxTests
    /\ loop_state.unit = "Converged"

\* ------------------------------------------------------------------------
\* C3
\* ------------------------------------------------------------------------

\* C3: an attempt whose remediation round resolved nothing is the last one:
\* every attempt that was followed by another verifier call resolved at
\* least one item, and a loop that stopped below N with failures after a
\* round that resolved nothing is Exhausted; with one failing outcome and a
\* failing remediator on attempt 1 there is exactly 1 verifier call and 1
\* remediator call.
C3_StopWhenNothingResolved ==
    /\ \A k \in 1..Len(hist) :
          (hist[k].success /\ hist[k].failed > 0 /\ hist[k].resolved = 0
              /\ (k < Len(hist) \/ pc # "resolve")) =>
             /\ k = Len(hist)
             /\ pc # "run_tests"
             /\ loop_state.unit = "Exhausted"
    /\ (pc # "resolve" /\ Len(hist) >= 1 /\ hist[1].success
          /\ hist[1].failed = 1 /\ hist[1].resolved = 0) =>
          /\ calls.verifier = 1
          /\ calls.remediator = 1
          /\ loop_state.unit = "Exhausted"

\* One failing outcome on attempt 1, the remediator failed, the loop is over.
C3_Witness ==
    /\ UnitReturned
    /\ Len(hist) = 1
    /\ hist[1].failed = 1
    /\ hist[1].remediated = 1
    /\ hist[1].resolved = 0
    /\ calls.verifier = 1
    /\ loop_state.unit = "Exhausted"

\* ------------------------------------------------------------------------
\* C4
\* ------------------------------------------------------------------------

C4_NoRemediationOnLastAttempt ==
    /\ pc = "resolve" => attempt < MAX_TEST_RETRY_ATTEMPTS
    /\ pc = "e2e_resolve" => e2e_attempt < MAX_E2E_TEST_RETRY_ATTEMPTS
    /\ \A k \in 1..Len(hist) :
          hist[k].remediated > 0 => k < MAX_TEST_RETRY_ATTEMPTS
    /\ \A k \in 1..Len(e2e_hist) :
          e2e_hist[k].remediated > 0 => k < MAX_E2E_TEST_RETRY_ATTEMPTS
    /\ Rounds(hist) <= MAX_TEST_RETRY_ATTEMPTS - 1
    /\ Rounds(e2e_hist) <= MAX_E2E_TEST_RETRY_ATTEMPTS - 1

\* C4 as claimed: no remediator call during attempt N, at most N-1 rounds,
\* and every remediator call is followed by a later verifier call.
C4_Original ==
    /\ C4_NoRemediationOnLastAttempt
    /\ UnitReturned =>
          \A k \in 1..Len(hist) : hist[k].remediated > 0 => k < Len(hist)

\* C4 (amended): no remediator call is made during attempt N of either
\* tier, a primary run has at most N-1 = 3 remediation rounds and an E2E run
\* at most 1, and every primary remediation round that resolved at least one
\* item is followed by a later verifier call (a round that resolved nothing
\* ends the loop without one).
C4_Amended ==
    /\ C4_NoRemediationOnLastAttempt
    /\ UnitReturned =>
          \A k \in 1..Len(hist) :
             /\ hist[k].resolved > 0 => k < Len(hist)
             /\ (hist[k].remediated > 0 /\ hist[k].resolved = 0)
                   => k = Len(hist)

\* Three remediation rounds, then failures on attempt 4 without remediation.
C4_Witness ==
    /\ UnitReturned
    /\ Len(hist) = MAX_TEST_RETRY_ATTEMPTS
    /\ Rounds(hist) = MAX_TEST_RETRY_ATTEMPTS - 1
    /\ hist[MAX_TEST_RETRY_ATTEMPTS].success
    /\ hist[MAX_TEST_RETRY_ATTEMPTS].failed > 0
    /\ hist[MAX_TEST_RETRY_ATTEMPTS].remediated = 0
    /\ loop_state.unit = "Exhausted"

\* ------------------------------------------------------------------------
\* C5
\* ------------------------------------------------------------------------

UnitAborted == \E k \in 1..Len(hist) : ~hist[k].success

C5_AbortState ==
    /\ \A k \in 1..Len(hist) :
          ~hist[k].success =>
             /\ k = Len(hist)
             /\ hist[k].remediated = 0
             /\ pc \notin {"run_tests", "resolve"}
             /\ loop_state.unit = "Aborted"
             /\ calls.verifier = k
             /\ calls.parse = k - 1
             /\ reported_error = << test_response[1].output >>
    /\ comments["error_running_tests"] = IF UnitAborted THEN 1 ELSE 0
    /\ ~UnitAborted => reported_error = None /\ calls.parse = calls.verifier

\* C5: when a primary verifier call returns success = false the loop is
\* Aborted: its output is not parsed, exactly one error comment is posted
\* and it carries the raw output of that call, and from then on no primary
\* verifier call, no parse, no remediator call and no further error comment
\* happens.
C5_AbortStopsTheLoop ==
    /\ []C5_AbortState
    /\ [][UnitAborted =>
             /\ calls'.verifier = calls.verifier
             /\ calls'.parse = calls.parse
             /\ calls'.remediator = calls.remediator
             /\ comments'["error_running_tests"] = comments["error_running_tests"]
             /\ reported_error' = reported_error]_vars

\* The verifier failed to execute on attempt 3, after two remediation
\* rounds, with output that embeds a well-formed result list.
C5_Witness ==
    /\ pc = "exited"
    /\ Len(hist) = 3
    /\ ~hist[3].success
    /\ test_response[1].output.parsable
    /\ loop_state.unit = "Aborted"


\* ------------------------------------------------------------------------
\* C6
\* ------------------------------------------------------------------------

\* The scenario of C6: the attempt-1 verifier reports 2 failing outcomes of
\* which the remediator fixes one and fails the other, the attempt-2
\* verifier reports 1 failing outcome which the remediator fixes, and the
\* attempt-3 verifier reports 0 failing outcomes; the loop has returned.
C6_Scenario ==
    /\ UnitReturned
    /\ Len(hist) >= 3
    /\ hist[1].success /\ hist[1].failed = 2 /\ hist[1].resolved = 1
    /\ hist[2].success /\ hist[2].failed = 1 /\ hist[2].resolved = 1
    /\ hist[3].success /\ hist[3].parse_ok /\ hist[3].failed = 0

\* C6 as claimed: in the scenario the loop makes exactly 3 verifier calls
\* and exactly 2 remediator calls, 1 in attempt 1 and 1 in attempt 2.
C6_Original ==
    C6_Scenario =>
       /\ calls.verifier = 3
       /\ calls.remediator = 2
       /\ hist[1].remediated = 1
       /\ hist[2].remediated = 1

\* C6 (amended): in the scenario the loop makes exactly 3 verifier calls and
\* exactly 3 remediator calls, 2 in attempt 1 (one per failing outcome) and
\* 1 in attempt 2, and none in attempt 3.
C6_Amended ==
    C6_Scenario =>
       /\ calls.verifier = 3
       /\ calls.remediator = 3
       /\ hist[1].remediated = 2
       /\ hist[2].remediated = 1
       /\ hist[3].remediated = 0
       /\ loop_state.unit = "Converged"

\* The scenario has happened, with a passing outcome listed next to the
\* failing one on attempt 2.
C6_Witness ==
    /\ C6_Scenario
    /\ pc = "exited"
    /\ Len(results) = 2

\* ------------------------------------------------------------------------
\* C7
\* ------------------------------------------------------------------------

C7_State ==
    /\ failed_count > 0 => ~E2EStarted /\ pc # "run_e2e"
    /\ (E2EStarted \/ pc \in {"run_e2e", "e2e_resolve", "e2e_return"}) =>
          /\ UnitReturned
          /\ loop_state.unit \in FinalStates

\* C7: while the primary loop's failed-count is positive the E2E tier is
\* untouched (no E2E attempt, verifier call or remediator call), so a
\* primary loop that returns failed-count > 0 never leads to the E2E tier;
\* and once the E2E tier has started, the primary loop has returned and
\* makes no further verifier or remediator call.
C7_NoE2EAfterUnitFailures ==
    /\ []C7_State
    /\ [][E2EStarted =>
             /\ calls'.verifier = calls.verifier
             /\ calls'.remediator = calls.remediator
             /\ failed_count' = failed_count]_vars

\* A run without --skip-e2e ended with primary failures after all attempts.
C7_Witness ==
    /\ pc = "exited"
    /\ ~skip_e2e
    /\ failed_count > 0
    /\ attempt = MAX_TEST_RETRY_ATTEMPTS
    /\ comments["skip_e2e_failures"] = 1

\* ------------------------------------------------------------------------
\* C8
\* ------------------------------------------------------------------------

\* C8: the E2E tier is started only when the primary loop ended Converged,
\* its last verifier call having succeeded with zero failing outcomes; a
\* primary loop that ended Aborted never leads to an E2E verifier call.
C8_E2EOnlyWhenGreen ==
    E2EStarted =>
       /\ loop_state.unit = "Converged"
       /\ test_response[1].success
       /\ failed_count = 0

\* ------------------------------------------------------------------------
\* C9
\* ------------------------------------------------------------------------

\* C9: the exit code is 0 only when every tier that ran ended Converged; it
\* is 1 when a tier ends with failed-count > 0, when the primary verifier
\* aborted, and when setup fails (then without any verifier call).
C9_ExitCode ==
    pc = "exited" =>
       /\ exit_code \in {0, 1}
       /\ exit_code = 0 =>
             /\ loop_state.unit = "Converged"
             /\ loop_state.e2e \in {"NotStarted", "Converged"}
       /\ (failed_count > 0 \/ e2e_failed_count > 0) => exit_code = 1
       /\ loop_state.unit = "Aborted" => exit_code = 1
       /\ loop_state.unit = "NotStarted" =>
             exit_code = 1 /\ calls.verifier = 0 /\ calls.e2e_verifier = 0

\* ------------------------------------------------------------------------
\* C10
\* ------------------------------------------------------------------------

\* Names of the remediator calls logged so far in this round.
LoggedNames == [i \in 1..Len(round_log) |-> round_log[i].test_name]

\* Number of failed remediator calls logged so far in this round.
LoggedFailures == Cardinality({ i \in 1..Len(round_log) : ~round_log[i].success })

\* C10: in a remediation round the remediator calls made so far are, in
\* order, the first failing outcomes of the verifier's list (never a passing
\* one, none skipped after a failed fix, none repeated), resolved-count +
\* unresolved-count is the number of calls made, and when the round is over
\* every failing outcome was handed over exactly once and resolved-count +
\* unresolved-count = failed-count.
C10_RemediationOrder ==
    /\ Len(round_log) <= Len(FailingNames(results))
    /\ LoggedNames = SubSeq(FailingNames(results), 1, Len(round_log))
    /\ pc = "resolve" =>
          /\ Len(hist) >= 1
          /\ hist[Len(hist)].success
          /\ idx = Len(round_log)
          /\ resolved_count + unresolved_count = Len(round_log)
          /\ unresolved_count = LoggedFailures
    /\ \A k \in 1..Len(hist) :
          (k < Len(hist) \/ pc # "resolve") =>
              hist[k].remediated \in {0, hist[k].failed}
    /\ (pc \in {"run_tests", "unit_return"} /\ Len(hist) >= 1
          /\ hist[Len(hist)].remediated > 0) =>
          /\ LoggedNames = FailingNames(results)
          /\ resolved_count + unresolved_count = failed_count
          /\ unresolved_count = LoggedFailures
          /\ calls.remediator >= failed_count

\* A finished round over the list (2 failing, 1 failing) in the verifier's
\* order, in which the first fix failed and the second succeeded.
C10_Witness ==
    /\ pc = "run_tests"
    /\ round_log = << [test_name |-> 2, success |-> FALSE],
                      [test_name |-> 1, success |-> TRUE] >>
    /\ resolved_count = 1
    /\ unresolved_count = 1


\* ========================================================================
\* worktree_ops.py: allocate_ports
\* ========================================================================

\* Largest length of a run identifier.
MaxIdLen == 5

\* Largest number of allocate_ports calls made for one identifier.
MaxPortCalls == 2

BACKEND_PORT_START == 3100

FRONTEND_PORT_START == 3200

MAX_CONCURRENT_WORKFLOWS == 15

\* The characters identifiers are built from: hex digits of both cases, a
\* letter that is no hex digit, and the characters int() treats specially.
IdChars == {"0", "1", "f", "A", "g", "x", "_", "+", "-", " "}

\* Identifiers (str), as sequences of characters.
IdStrings == UNION { [1..n -> IdChars] : n \in 0..MaxIdLen }

HexLower ==
    << "0", "1", "2", "3", "4", "5", "6", "7", "8", "9",
       "a", "b", "c", "d", "e", "f" >>

HexUpper ==
    << "0", "1", "2", "3", "4", "5", "6", "7", "8", "9",
       "A", "B", "C", "D", "E", "F" >>

\* The characters int(s, 16) accepts as digits.
HexDigits == { HexLower[i] : i \in 1..16 } \cup { HexUpper[i] : i \in 1..16 }

\* Value of a hex digit.
DigitValue(c) ==
    (CHOOSE i \in 1..16 : HexLower[i] = c \/ HexUpper[i] = c) - 1

\* Characters str.strip() and int() treat as white space.
Whitespace == {" "}

RECURSIVE LStrip(_)
\* int(): leading white space is skipped
LStrip(s) ==
    IF s # <<>> /\ Head(s) \in Whitespace THEN LStrip(Tail(s)) ELSE s

RECURSIVE RStrip(_)
\* int(): trailing white space is skipped
RStrip(s) ==
    IF s # <<>> /\ s[Len(s)] \in Whitespace
    THEN RStrip(SubSeq(s, 1, Len(s) - 1))
    ELSE s

RECURSIVE DigitsValue(_, _)
\* Value of a digit string with underscores, most significant digit first.
DigitsValue(s, acc) ==
    IF s = <<>> THEN acc
    ELSE IF Head(s) = "_" THEN DigitsValue(Tail(s), acc)
    ELSE DigitsValue(Tail(s), 16 * acc + DigitValue(Head(s)))

\* int(): the digit part is one or more hex digits, with single underscores
\* allowed between digits only.
ValidDigits(s) ==
    /\ s # <<>>
    /\ \A i \in 1..Len(s) : s[i] \in HexDigits \cup {"_"}
    /\ s[1] # "_"
    /\ s[Len(s)] # "_"
    /\ \A i \in 1..(Len(s) - 1) : ~(s[i] = "_" /\ s[i + 1] = "_")

\* Python's int(s, 16): white space around the literal is skipped, then an
\* optional sign, an optional "0x"/"0X" prefix (which one underscore may
\* follow), then the digits.  ok = FALSE stands for ValueError.
py_int16(s) ==
    LET t == RStrip(LStrip(s))
        signed == t # <<>> /\ Head(t) \in {"+", "-"}
        negative == t # <<>> /\ Head(t) = "-"
        u == IF signed THEN Tail(t) ELSE t
        prefixed == Len(u) >= 2 /\ u[1] = "0" /\ u[2] \in {"x", "X"}
        v == IF prefixed THEN SubSeq(u, 3, Len(u)) ELSE u
        w == IF prefixed /\ v # <<>> /\ Head(v) = "_" THEN Tail(v) ELSE v
    IN
    IF ValidDigits(w)
    THEN [ok |-> TRUE,
          value |-> IF negative THEN 0 - DigitsValue(w, 0)
                    ELSE DigitsValue(w, 0)]
    ELSE [ok |-> FALSE, value |-> 0]

PyModMutant(a, n) == IF a >= 0 THEN a % n ELSE 0 - ((0 - a) % n)
\* Python's a % n for n > 0: the result has the sign of n.
PyMod(a, n) == IF a >= 0 THEN a % n ELSE (n - ((0 - a) % n)) % n

RECURSIVE ljust(_, _, _)
\* str.ljust(width, fillchar)
ljust(s, width, fillchar) ==
    IF Len(s) >= width THEN s ELSE ljust(Append(s, fillchar), width, fillchar)

HexPrefixMutant(id) == IF Len(id) >= 4 THEN SubSeq(id, 1, 4) ELSE ljust(id, 4, "1")
\* hex_prefix = adw_id[:4] if len(adw_id) >= 4 else adw_id.ljust(4, '0')
HexPrefix(id) == IF Len(id) >= 4 THEN SubSeq(id, 1, 4) ELSE ljust(id, 4, "0")

\* allocate_ports(adw_id): PortAllocation(backend, frontend), or the
\* ValueError of int().
allocate_ports(id) ==
    LET parsed == py_int16(HexPrefix(id)) IN
    IF ~parsed.ok THEN Raised
    ELSE LET offset == PyMod(parsed.value, MAX_CONCURRENT_WORKFLOWS) IN
         [ok |-> TRUE,
          backend |-> BACKEND_PORT_START + offset,
          frontend |-> FRONTEND_PORT_START + offset]

\* The test workflow at rest, in the specifications of the other components.
WorkflowIdle ==
    /\ pc = "exited"
    /\ skip_e2e = FALSE
    /\ state_branch = FALSE
    /\ exit_code = NotExited
    /\ attempt = 0
    /\ results = <<>>
    /\ passed_count = 0
    /\ failed_count = 0
    /\ test_response = None
    /\ failed_tests = <<>>
    /\ idx = 0
    /\ resolved_count = 0
    /\ unresolved_count = 0
    /\ e2e_attempt = 0
    /\ e2e_results = <<>>
    /\ e2e_passed_count = 0
    /\ e2e_failed_count = 0
    /\ e2e_failed_tests = <<>>
    /\ e2e_idx = 0
    /\ e2e_resolved_count = 0
    /\ e2e_unresolved_count = 0
    /\ loop_state = [unit |-> "NotStarted", e2e |-> "NotStarted"]
    /\ calls = [verifier |-> 0, parse |-> 0, remediator |-> 0,
                e2e_verifier |-> 0, e2e_remediator |-> 0,
                commit |-> 0, push |-> 0]
    /\ comments = [k \in CommentKinds |-> 0]
    /\ hist = <<>>
    /\ e2e_hist = <<>>
    /\ round_log = <<>>
    /\ reported_error = None
    /\ closing_comment = None

\* Any identifier may be handed to allocate_ports.
PortsInit ==
    /\ WorkflowIdle
    /\ WtIdle
    /\ RunsIdle
    /\ PureIdle
    /\ adw_id \in IdStrings
    /\ port_log = <<>>

\* One call allocate_ports(adw_id); the function reads its argument and
\* module constants only.
AllocatePorts ==
    /\ Len(port_log) < MaxPortCalls
    /\ port_log' = Append(port_log, allocate_ports(adw_id))
    /\ UNCHANGED << adw_id, workflowVars, wtVars, runVars, pureVars >>

PortsNext == AllocatePorts

PortsSpec == PortsInit /\ [][PortsNext]_vars


\* ------------------------------------------------------------------------
\* C11
\* ------------------------------------------------------------------------

\* C11: when the output of a successful verifier call cannot be parsed, the
\* attempt counts as an empty result set (no outcomes, passed-count 0,
\* failed-count 0), the loop is not Aborted, no remediator call is made in
\* that attempt and nothing is resolved, and below the last attempt the loop
\* goes on: it is still running or has made a further verifier call.
C11_ParseFailureContinues ==
    \A k \in 1..Len(hist) :
       (hist[k].success /\ ~hist[k].parse_ok) =>
          /\ hist[k].failed = 0
          /\ hist[k].remediated = 0
          /\ hist[k].resolved = 0
          /\ loop_state.unit # "Aborted"
          /\ k = Len(hist) => results = <<>> /\ passed_count = 0
                                /\ failed_count = 0
          /\ k < MAX_TEST_RETRY_ATTEMPTS =>
                (k < Len(hist) \/ loop_state.unit = "Running")

\* ------------------------------------------------------------------------
\* C16
\* ------------------------------------------------------------------------

\* The first 4 characters of an identifier, a shorter one filled up with "0".
RefPrefix(id) == [i \in 1..4 |-> IF i <= Len(id) THEN id[i] ELSE "0"]

\* A 4-character string of hex digits read as a base-16 number.
RefHexValue(p) ==
    4096 * DigitValue(p[1]) + 256 * DigitValue(p[2])
      + 16 * DigitValue(p[3]) + DigitValue(p[4])

IsHexPrefix(id) == \A i \in 1..4 : RefPrefix(id)[i] \in HexDigits

C16_State ==
    \A i \in 1..Len(port_log) :
       /\ port_log[i] = port_log[1]
       /\ IsHexPrefix(adw_id) =>
             LET o == RefHexValue(RefPrefix(adw_id)) % 15 IN
             port_log[i] = [ok |-> TRUE, backend |-> 3100 + o,
                            frontend |-> 3200 + o]

\* C16: for an identifier whose first 4 characters (after padding with "0")
\* are hex digits, allocate_ports returns (3100 + o, 3200 + o) with o the
\* prefix read in base 16, modulo 15; every call with the same identifier
\* returns the same result, and a call changes nothing but the record of
\* its own result.
C16_AllocateIsReference ==
    /\ []C16_State
    /\ [][adw_id' = adw_id /\ workflowVars' = workflowVars
            /\ SubSeq(port_log', 1, Len(port_log)) = port_log]_vars

\* Two calls for the 3-character identifier "fA1": prefix "fA10", offset 11.
C16_Witness ==
    /\ adw_id = << "f", "A", "1" >>
    /\ Len(port_log) = 2
    /\ port_log[2] = [ok |-> TRUE, backend |-> 3111, frontend |-> 3211]

\* ------------------------------------------------------------------------
\* C17
\* ------------------------------------------------------------------------

\* C17: whenever allocate_ports returns a result, backend - 3100 equals
\* frontend - 3200 and lies in 0..14, so backend is in 3100..3114 and
\* frontend in 3200..3214.
C17_OffsetInRange ==
    \A i \in 1..Len(port_log) :
       port_log[i].ok =>
          /\ port_log[i].backend - 3100 = port_log[i].frontend - 3200
          /\ port_log[i].backend \in 3100..3114
          /\ port_log[i].frontend \in 3200..3214

\* A result for an identifier int() reads as a negative number.
C17_Witness ==
    /\ adw_id = << "-", "f", "A", "1" >>
    /\ Len(port_log) >= 1
    /\ port_log[1].ok
    /\ port_log[1].backend > 3100

\* ------------------------------------------------------------------------
\* C18
\* ------------------------------------------------------------------------

\* C18: for an identifier whose first 4 characters (after padding) are not
\* all hex digits, every allocate_ports call fails and returns no ports.
C18_InvalidIdentifierFails ==
    \A i \in 1..Len(port_log) :
       ~IsHexPrefix(adw_id) => port_log[i] = Raised


\* ------------------------------------------------------------------------
\* C20
\* ------------------------------------------------------------------------

\* C20: a run that reached its end has posted exactly one final comment
\* with the counts of the primary tier, and, when the end-to-end tier was
\* executed, its closing comment carries the end-to-end tier's counts (the
\* only comment of main() that reports them).
C20_OneFinalCommentPerTier ==
    (pc = "exited" /\ closing_comment # None) =>
       /\ comments["final_test_results"] = 1
       /\ E2EStarted => closing_comment[1].e2e_line


\* ------------------------------------------------------------------------
\* worktree_ops.py: create_worktree, remove_worktree,
\* cleanup_stale_worktrees
\* ------------------------------------------------------------------------

\* The clock runs from 0 to MaxHours hours.
MaxHours == 1

\* max_age_seconds = max_age_hours * 3600
SecondsPerHour == 3600

\* Values of max_age_hours; 24 is the default.
MaxAgeChoices == {0, 24}

\* Name of the entry of trees/ that is a regular file.
StrayName == << "_" >>

\* A path component that pathlib keeps: not empty and not ".".
KeptPart(part) == part # <<>> /\ part # << "." >>

RECURSIVE SplitParts(_, _, _)
\* The components of the string s, split at "/"; cur is the component being
\* read, acc the components kept so far.
SplitParts(s, cur, acc) ==
    LET done == IF KeptPart(cur) THEN Append(acc, cur) ELSE acc IN
    IF s = <<>> THEN done
    ELSE IF Head(s) = "/" THEN SplitParts(Tail(s), <<>>, done)
    ELSE SplitParts(Tail(s), Append(cur, Head(s)), acc)

RECURSIVE LeadingSlashes(_)
LeadingSlashes(s) ==
    IF s = <<>> \/ Head(s) # "/" THEN 0 ELSE 1 + LeadingSlashes(Tail(s))

\* The root of a POSIX path string: "" for a relative one, "//" for exactly
\* two leading slashes, else "/".
Anchor(s) ==
    IF LeadingSlashes(s) = 0 THEN ""
    ELSE IF LeadingSlashes(s) = 2 THEN "//" ELSE "/"

\* PurePosixPath: base / s.  An absolute s replaces base.
PathJoin(base, s) ==
    IF Anchor(s) = ""
    THEN [anchor |-> base.anchor,
          parts |-> base.parts \o SplitParts(s, <<>>, <<>>)]
    ELSE [anchor |-> Anchor(s), parts |-> SplitParts(s, <<>>, <<>>)]

\* Path(__file__).parent.parent: an absolute directory, here /r
get_project_root == [anchor |-> "/", parts |-> << << "r" >> >>]

\* get_project_root() / "trees"
get_trees_dir == PathJoin(get_project_root, << "t", "r", "e", "e", "s" >>)

\* get_trees_dir() / adw_id
get_worktree_path(id) == PathJoin(get_trees_dir, id)

\* PortAllocation.to_env_dict(), in the order the lines are written
to_env_dict(ports) ==
    << << "PORT", ports.backend >>, << "VITE_PORT", ports.frontend >>,
       << "DEV_SERVER_PORT", ports.frontend >> >>

CheckFailedMutant(exit_ok) == FALSE
\* subprocess.run(..., check=True) raises CalledProcessError on a non-zero
\* exit status
CheckFailed(exit_ok) == ~exit_ok

AlreadyExistsMutant(t) == FALSE
\* create_worktree: if worktree_path.exists()
AlreadyExists(t) == t.present

WorktreeExistsMutant(t) == TRUE
\* remove_worktree: if not worktree_path.exists(): return False
WorktreeExists(t) == t.present

IsStaleMutant(age_seconds, max_age_seconds) == age_seconds >= max_age_seconds
\* if age_seconds > max_age_seconds
IsStale(age_seconds, max_age_seconds) == age_seconds > max_age_seconds

CleanedAfterMutant(cleaned, raised) == cleaned + 1
\* try: remove_worktree(...); cleaned += 1 / except CalledProcessError
CleanedAfter(cleaned, raised) == IF raised THEN cleaned ELSE cleaned + 1

\* worktree_dir.is_dir() for an entry name of trees/
is_dir(name) == name \in WtIds /\ tree[name].present

\* The orders in which iterdir() may yield the entries S.
Orders(S) ==
    { f \in [1..Cardinality(S) -> S] :
         \A i, j \in 1..Cardinality(S) : i # j => f[i] # f[j] }

\* The identifier the running remove_worktree works on: its argument, given
\* by the caller or by cleanup_stale_worktrees.
TargetId(p) == IF frame[p].op = "cleanup" THEN sweep[p].cur ELSE frame[p].id

\* What a finished call leaves behind for its caller.
ReturnOf(f, outcome, path, ports, flag, count, sw) ==
    [op |-> f.op, id |-> f.id, hours |-> f.hours, outcome |-> outcome,
     path |-> path, ports |-> ports, flag |-> flag, count |-> count,
     found_present |-> f.found_present, eff |-> f.eff,
     sweep |-> [sw EXCEPT !.todo = <<>>, !.cur = <<>>]]

\* The call of process p ends with the given return.
Finished(p, ret) ==
    /\ last' = [last EXCEPT ![p] = ret]
    /\ wpc' = [wpc EXCEPT ![p] = "idle"]
    /\ frame' = [frame EXCEPT ![p] = NoFrame]
    /\ sweep' = [sweep EXCEPT ![p] = NoSweep]

\* create_worktree ends; outcome "ok" returns (worktree_path, ports).
CreateFinished(p, f, outcome) ==
    LET ret == IF outcome = "ok"
               THEN ReturnOf(f, "ok", get_worktree_path(f.id),
                             allocate_ports(f.id), FALSE, 0, NoSweep)
               ELSE ReturnOf(f, outcome, NoPath, Raised, FALSE, 0, NoSweep)
    IN  /\ Finished(p, ret)
        /\ created' = [created EXCEPT ![f.id] =
                          [outcome |-> ret.outcome, path |-> ret.path,
                           ports |-> ret.ports, add |-> f.eff.add]]

Bump(f, field) == [f EXCEPT !.eff[field] = @ + 1]

\* create_worktree(adw_id, branch_name) up to the existence check: make
\* trees/, and return the path and the ports at once if the path exists.
CreateCall(p, id) ==
    /\ wpc[p] = "idle"
    /\ trees_dir' = TRUE
    /\ LET f == [NoFrame EXCEPT !.op = "create", !.id = id,
                                !.found_present = tree[id].present]
       IN  IF AlreadyExists(tree[id])
           THEN CreateFinished(p, f, IF allocate_ports(id).ok THEN "ok"
                                     ELSE "ValueError")
           ELSE /\ frame' = [frame EXCEPT ![p] = f]
                /\ wpc' = [wpc EXCEPT ![p] = "create_add"]
                /\ UNCHANGED << sweep, last, created >>
    /\ UNCHANGED << tree, stray_file, env_local, clock, workflowVars,
                    portVars, runVars, pureVars >>

\* git worktree add <path> <branch> with check=True, then allocate_ports.
\* git refuses a path that exists.
CreateAdd(p) ==
    /\ wpc[p] = "create_add"
    /\ \E git_ok \in BOOLEAN :
         LET id == frame[p].id
             f == Bump(frame[p], "add")
             added == git_ok /\ ~tree[id].present
         IN  /\ tree' = IF added
                        THEN [tree EXCEPT ![id] =
                                 [Absent EXCEPT !.present = TRUE,
                                                !.mtime = clock]]
                        ELSE tree
             /\ IF CheckFailed(added)
                THEN CreateFinished(p, f, "CalledProcessError")
                ELSE IF allocate_ports(id).ok
                THEN /\ frame' = [frame EXCEPT ![p] = f]
                     /\ wpc' = [wpc EXCEPT ![p] = "create_files"]
                     /\ UNCHANGED << sweep, last, created >>
                ELSE CreateFinished(p, f, "ValueError")
    /\ UNCHANGED << trees_dir, stray_file, env_local, clock, workflowVars,
                    portVars, runVars, pureVars >>

\* Copy .env.local into the worktree if the project has one, and write
\* .ports.env.
CreateFiles(p) ==
    /\ wpc[p] = "create_files"
    /\ LET id == frame[p].id
           f1 == IF env_local THEN Bump(frame[p], "env") ELSE frame[p]
           f == Bump(f1, "ports")
       IN  IF tree[id].present
           THEN /\ tree' = [tree EXCEPT ![id] =
                               [@ EXCEPT !.env_local = @ \/ env_local,
                                         !.ports_env =
                                            to_env_dict(allocate_ports(id)),
                                         !.mtime = clock]]
                /\ frame' = [frame EXCEPT ![p] = f]
                /\ wpc' = [wpc EXCEPT ![p] = "create_install"]
                /\ UNCHANGED << sweep, last, created >>
           ELSE /\ CreateFinished(p, frame[p], "OSError")
                /\ UNCHANGED tree
    /\ UNCHANGED << trees_dir, stray_file, env_local, clock, workflowVars,
                    portVars, runVars, pureVars >>

\* npm install in the worktree with check=True, then the return.
CreateInstall(p) ==
    /\ wpc[p] = "create_install"
    /\ \E npm_ok \in BOOLEAN :
         LET id == frame[p].id
             f == Bump(frame[p], "install")
         IN  IF ~tree[id].present
             THEN /\ CreateFinished(p, frame[p], "OSError")
                  /\ UNCHANGED tree
             ELSE IF CheckFailed(npm_ok)
             THEN /\ CreateFinished(p, f, "CalledProcessError")
                  /\ UNCHANGED tree
             ELSE /\ tree' = [tree EXCEPT ![id] =
                                 [@ EXCEPT !.installed = npm_ok,
                                           !.mtime = clock]]
                  /\ CreateFinished(p, f, "ok")
    /\ UNCHANGED << trees_dir, stray_file, env_local, clock, workflowVars,
                    portVars, runVars, pureVars >>

\* A caller enters remove_worktree(adw_id).
RemoveCall(p, id) ==
    /\ wpc[p] = "idle"
    /\ frame' = [frame EXCEPT ![p] = [NoFrame EXCEPT !.op = "remove",
                                                     !.id = id]]
    /\ wpc' = [wpc EXCEPT ![p] = "remove_check"]
    /\ UNCHANGED << tree, trees_dir, stray_file, env_local, clock, sweep,
                    last, created, workflowVars, portVars,
                    runVars, pureVars >>

\* remove_worktree: the existence check.  False goes back to the caller, or
\* to the sweep, which counts the call as a removal.
RemoveCheck(p) ==
    /\ wpc[p] = "remove_check"
    /\ LET id == TargetId(p)
           f == [frame[p] EXCEPT !.found_present = tree[id].present]
       IN  IF WorktreeExists(tree[id])
           THEN /\ frame' = [frame EXCEPT ![p] = f]
                /\ wpc' = [wpc EXCEPT ![p] = "remove_git"]
                /\ UNCHANGED << sweep, last >>
           ELSE IF frame[p].op = "cleanup"
           THEN /\ sweep' = [sweep EXCEPT ![p].cleaned =
                                CleanedAfter(@, FALSE)]
                /\ wpc' = [wpc EXCEPT ![p] = "cleanup_loop"]
                /\ UNCHANGED << frame, last >>
           ELSE Finished(p, ReturnOf(f, "ok", NoPath, Raised, FALSE, 0,
                                     NoSweep))
    /\ UNCHANGED << tree, trees_dir, stray_file, env_local, clock, created,
                    workflowVars, portVars,
                    runVars, pureVars >>

\* git worktree remove <path> --force with check=True.  git fails on a path
\* that is gone.  Inside the sweep the error is caught and logged.
RemoveGit(p) ==
    /\ wpc[p] = "remove_git"
    /\ \E git_ok \in BOOLEAN :
         LET id == TargetId(p)
             f == Bump(frame[p], "rm")
             removed == git_ok /\ tree[id].present
         IN  /\ tree' = IF removed THEN [tree EXCEPT ![id] = Absent]
                        ELSE tree
             /\ IF frame[p].op = "cleanup"
                THEN /\ sweep' = [sweep EXCEPT
                           ![p].cleaned = CleanedAfter(@, ~removed),
                           ![p].removed = IF removed THEN @ \cup {id} ELSE @,
                           ![p].failed = IF removed THEN @ ELSE @ \cup {id}]
                     /\ frame' = [frame EXCEPT ![p] = f]
                     /\ wpc' = [wpc EXCEPT ![p] = "cleanup_loop"]
                     /\ UNCHANGED last
                ELSE IF removed
                THEN Finished(p, ReturnOf(f, "ok", NoPath, Raised, TRUE, 0,
                                          NoSweep))
                ELSE Finished(p, ReturnOf(f, "CalledProcessError", NoPath,
                                          Raised, FALSE, 0, NoSweep))
    /\ UNCHANGED << trees_dir, stray_file, env_local, clock, created,
                    workflowVars, portVars,
                    runVars, pureVars >>

\* cleanup_stale_worktrees(max_age_hours) up to the loop: 0 if trees/ does
\* not exist, else now = time.time() and the entries of trees/.
CleanupCall(p, hours) ==
    /\ wpc[p] = "idle"
    /\ LET f == [NoFrame EXCEPT !.op = "cleanup", !.hours = hours]
           dirs == { id \in WtIds : tree[id].present }
           fresh == { id \in dirs : tree[id].mtime = clock }
           entries == dirs \cup (IF stray_file THEN {StrayName} ELSE {})
       IN  IF ~trees_dir
           THEN Finished(p, ReturnOf(f, "ok", NoPath, Raised, FALSE, 0,
                                     NoSweep))
           ELSE /\ \E order \in Orders(entries) :
                     sweep' = [sweep EXCEPT ![p] =
                                  [NoSweep EXCEPT !.todo = order,
                                                  !.now = clock,
                                                  !.scanned = dirs,
                                                  !.fresh = fresh]]
                /\ frame' = [frame EXCEPT ![p] = f]
                /\ wpc' = [wpc EXCEPT ![p] = "cleanup_loop"]
                /\ UNCHANGED last
    /\ UNCHANGED << tree, trees_dir, stray_file, env_local, clock, created,
                    workflowVars, portVars,
                    runVars, pureVars >>

\* One turn of the loop over the entries: skip what is no directory, skip a
\* directory that is not older than max_age_hours, else call
\* remove_worktree.  After the last entry: return cleaned.
CleanupEntry(p) ==
    /\ wpc[p] = "cleanup_loop"
    /\ LET sw == sweep[p] IN
       IF sw.todo = <<>>
       THEN Finished(p, ReturnOf(frame[p], "ok", NoPath, Raised, FALSE,
                                 sw.cleaned, sw))
       ELSE LET e == Head(sw.todo)
                rest == [sw EXCEPT !.todo = Tail(sw.todo)]
            IN  /\ IF is_dir(e)
                      /\ IsStale(sw.now - tree[e].mtime,
                                 frame[p].hours * SecondsPerHour)
                   THEN /\ sweep' = [sweep EXCEPT ![p] =
                                        [rest EXCEPT !.cur = e,
                                           !.attempted = @ \cup {e}]]
                        /\ wpc' = [wpc EXCEPT ![p] = "remove_check"]
                   ELSE /\ sweep' = [sweep EXCEPT ![p] = rest]
                        /\ UNCHANGED wpc
                /\ UNCHANGED << frame, last >>
    /\ UNCHANGED << tree, trees_dir, stray_file, env_local, clock, created,
                    workflowVars, portVars,
                    runVars, pureVars >>

\* An hour passes.
Tick ==
    /\ clock < MaxHours * SecondsPerHour
    /\ clock' = clock + SecondsPerHour
    /\ UNCHANGED << tree, trees_dir, stray_file, env_local, wpc, frame,
                    sweep, last, created, workflowVars, portVars,
                    runVars, pureVars >>

\* One caller; the project may have a .env.local, and trees/ may exist and
\* hold a regular file.
WtInit ==
    /\ WorkflowIdle
    /\ PortsIdle
    /\ RunsIdle
    /\ PureIdle
    /\ tree = [id \in WtIds |-> Absent]
    /\ stray_file \in BOOLEAN
    /\ trees_dir = stray_file
    /\ env_local \in BOOLEAN
    /\ clock = 0
    /\ wpc = [p \in Procs |-> "idle"]
    /\ frame = [p \in Procs |-> NoFrame]
    /\ sweep = [p \in Procs |-> NoSweep]
    /\ last = [p \in Procs |-> NoReturn]
    /\ created = [id \in WtIds |-> NoCreate]

WtNext ==
    \/ \E id \in WtIds : CreateCall(1, id)
    \/ CreateAdd(1)
    \/ CreateFiles(1)
    \/ CreateInstall(1)
    \/ \E id \in WtIds : RemoveCall(1, id)
    \/ RemoveCheck(1)
    \/ RemoveGit(1)
    \/ \E hours \in MaxAgeChoices : CleanupCall(1, hours)
    \/ CleanupEntry(1)
    \/ Tick

WtSpec == WtInit /\ [][WtNext]_vars

WtTypeOK ==
    /\ \A id \in WtIds :
          /\ tree[id].present \in BOOLEAN
          /\ tree[id].mtime \in 0..clock
          /\ created[id].outcome \in
                {"none", "ok", "ValueError", "CalledProcessError", "OSError"}
    /\ trees_dir \in BOOLEAN
    /\ clock \in 0..(MaxHours * SecondsPerHour)
    /\ \A p \in Procs :
          /\ wpc[p] \in {"idle", "create_add", "create_files",
                         "create_install", "remove_check", "remove_git",
                         "cleanup_loop"}
          /\ frame[p].op \in {"none", "create", "remove", "cleanup"}
          /\ last[p].op \in {"none", "create", "remove", "cleanup"}
          /\ sweep[p].cleaned \in 0..Cardinality(WtIds)


\* ------------------------------------------------------------------------
\* C12
\* ------------------------------------------------------------------------

\* Process p returns from the call op in this step.
Returns(p, op) ==
    /\ frame[p].op = op \/ (wpc[p] = "idle" /\ last'[p].op = op)
    /\ wpc[p] # "idle" \/ last'[p] # last[p] \/ created' # created
    /\ wpc'[p] = "idle"
    /\ frame'[p] = NoFrame

C12_Step ==
    \A p \in Procs :
       (Returns(p, "create") /\ last'[p].found_present) =>
          LET r == last'[p] IN
          /\ r.eff = NoEffects
          /\ tree' = tree
          /\ allocate_ports(r.id).ok =>
                /\ r.outcome = "ok"
                /\ r.path = get_worktree_path(r.id)
                /\ r.ports = allocate_ports(r.id)
          /\ created[r.id].outcome = "ok" =>
                /\ r.outcome = "ok"
                /\ r.path = created[r.id].path
                /\ r.ports = created[r.id].ports
                /\ created[r.id].add + r.eff.add <= 1

\* C12: a create_worktree call that finds the path Present makes no call to
\* git worktree add, copies no .env.local, writes no .ports.env, runs no
\* npm install and changes no worktree; for an identifier that has ports it
\* returns the path and the ports of that identifier, the same as the
\* create_worktree call before it returned, and the two calls together made
\* at most one git worktree add.
C12_SecondCreateIsNoOp == [][C12_Step]_vars

\* A second create_worktree for "fA" has returned, after a first one that
\* went through the install.
C12_Witness ==
    /\ last[1].op = "create"
    /\ last[1].id = << "f", "A" >>
    /\ last[1].found_present
    /\ last[1].outcome = "ok"
    /\ last[1].ports = [ok |-> TRUE, backend |-> 3110, frontend |-> 3210]
    /\ tree[<< "f", "A" >>].installed

\* ------------------------------------------------------------------------
\* C13
\* ------------------------------------------------------------------------

C13_Step ==
    \A p \in Procs :
       Returns(p, "remove") =>
          LET r == last'[p] IN
          /\ ~r.found_present =>
                /\ r.outcome = "ok"
                /\ r.flag = FALSE
                /\ r.eff.rm = 0
                /\ tree' = tree
          /\ r.found_present =>
                /\ r.eff.rm = 1
                /\ \/ /\ r.outcome = "ok"
                      /\ r.flag = TRUE
                      /\ tree' = [tree EXCEPT ![r.id] = Absent]
                   \/ /\ r.outcome = "CalledProcessError"
                      /\ tree'[r.id].present
                      /\ tree' = tree

\* C13: remove_worktree on an Absent worktree returns False without calling
\* git worktree remove; on a Present one it calls git worktree remove
\* --force exactly once, and either returns True with the worktree Absent,
\* or the failure of git is raised and the worktree stays Present.
C13_RemoveWorktree == [][C13_Step]_vars

\* The removal of a Present worktree failed and was raised.
C13_Witness ==
    /\ last[1].op = "remove"
    /\ last[1].found_present
    /\ last[1].outcome = "CalledProcessError"
    /\ last[1].eff.rm = 1
    /\ tree[last[1].id].present

\* ------------------------------------------------------------------------
\* C14
\* ------------------------------------------------------------------------

C14_Step ==
    \A p \in Procs :
       Returns(p, "cleanup") =>
          LET r == last'[p]
              sw == r.sweep
          IN  /\ r.outcome = "ok"
              /\ r.count = Cardinality(sw.removed)
              /\ sw.removed \cap sw.failed = {}
              /\ sw.attempted = sw.removed \cup sw.failed
              /\ r.eff.rm = Cardinality(sw.attempted)
              /\ \A id \in sw.scanned \ sw.attempted :
                    /\ tree[id].present
                    /\ sw.now - tree[id].mtime <= r.hours * 3600
              /\ \A id \in sw.removed : ~tree[id].present
              /\ \A id \in sw.failed : tree[id].present

\* C14: cleanup_stale_worktrees always returns; every directory of trees/
\* older than max_age_hours is handed to git worktree remove exactly once,
\* whether or not an earlier removal failed; a failed removal leaves its
\* worktree Present and is not counted, and the returned count is the
\* number of worktrees removed.
C14_SweepSurvivesFailure == [][C14_Step]_vars

\* A sweep in which one removal failed and another succeeded.
C14_Witness ==
    /\ last[1].op = "cleanup"
    /\ last[1].sweep.failed # {}
    /\ last[1].sweep.removed # {}
    /\ last[1].count = 1

\* ------------------------------------------------------------------------
\* C15
\* ------------------------------------------------------------------------

\* A sweep whose max_age_hours is more than the time since the epoch of the
\* model, so more than the age of every worktree, removes nothing.
C15_LargeAge(r) ==
    r.hours * 3600 > r.sweep.now =>
       /\ r.sweep.attempted = {}
       /\ r.count = 0
       /\ \A id \in r.sweep.scanned : tree'[id].present

\* C15 as stated: cleanup_stale_worktrees(max_age_hours=0) leaves no
\* worktree Present except those whose removal failed, and a sweep with an
\* age above every worktree's age removes none and returns 0.
C15_Original ==
    [][\A p \in Procs :
          Returns(p, "cleanup") =>
             LET r == last'[p] IN
             /\ r.hours = 0 =>
                   \A id \in r.sweep.scanned :
                      id \in r.sweep.failed \/ ~tree'[id].present
             /\ C15_LargeAge(r)]_vars

\* C15: cleanup_stale_worktrees(max_age_hours=0) removes every worktree
\* modified before the instant of the sweep, unless its removal fails, and
\* leaves alone every worktree modified at that instant (age 0 is not more
\* than 0); a sweep with an age above every worktree's age removes none and
\* returns 0.
C15_Amended ==
    [][\A p \in Procs :
          Returns(p, "cleanup") =>
             LET r == last'[p] IN
             /\ r.hours = 0 =>
                   \A id \in r.sweep.scanned :
                      IF id \in r.sweep.fresh
                      THEN tree'[id].present /\ id \notin r.sweep.attempted
                      ELSE id \in r.sweep.failed \/ ~tree'[id].present
             /\ C15_LargeAge(r)]_vars

\* A sweep with max_age_hours = 0 that removed one worktree and left one
\* modified at the instant of the sweep.
C15_Witness ==
    /\ last[1].op = "cleanup"
    /\ last[1].hours = 0
    /\ last[1].sweep.removed # {}
    /\ last[1].sweep.fresh # {}
    /\ \A id \in last[1].sweep.fresh : tree[id].present


\* ------------------------------------------------------------------------
\* adw_test.py: several runs at once.  Every git call of a run is made with
\* cwd = Path(__file__).parent.parent, the checkout that holds the script,
\* and the agents run tests and edit files in that checkout.  Of a run we
\* keep the steps that read or write the checkout; the E2E tier reads and
\* writes it as the unit tier does.
\* ------------------------------------------------------------------------

\* main(): git checkout <branch_name> if the state holds one, else
\* git checkout -b <new branch>, which starts at the current HEAD; a
\* failure exits with 1.
RunCheckout(r) ==
    /\ rpc[r] = "start"
    /\ \E git_ok \in BOOLEAN, existing \in BOOLEAN :
         LET d == script_root[r] IN
         IF git_ok
         THEN /\ head' = [head EXCEPT ![d] = r]
              /\ commits' = IF existing THEN commits
                            ELSE [commits EXCEPT ![r] = commits[head[d]]]
              /\ rpc' = [rpc EXCEPT ![r] = "test"]
         ELSE /\ rpc' = [rpc EXCEPT ![r] = "exited"]
              /\ UNCHANGED << head, commits >>
    /\ UNCHANGED << script_root, work, pushed, rattempt, observed,
                    workflowVars, portVars, wtVars, pureVars >>

\* run_tests_with_resolution: one attempt; the tests run on what the
\* checkout holds.  No failures, or the last attempt, ends the loop.
RunVerify(r) ==
    /\ rpc[r] = "test"
    /\ WhileCondition(rattempt[r], MAX_TEST_RETRY_ATTEMPTS)
    /\ \E passed \in BOOLEAN :
         LET d == script_root[r] IN
         /\ rattempt' = [rattempt EXCEPT ![r] = NextAttempt(@)]
         /\ observed' = [observed EXCEPT ![r] =
                            [branch |-> head[d], changes |-> work[d]]]
         /\ rpc' = [rpc EXCEPT ![r] =
                       IF passed \/ IsLastAttempt(NextAttempt(rattempt[r]),
                                                 MAX_TEST_RETRY_ATTEMPTS)
                       THEN "commit" ELSE "resolve"]
    /\ UNCHANGED << script_root, head, work, commits, pushed, workflowVars,
                    portVars, wtVars, pureVars >>

\* resolve_failed_tests: the agent edits files of the checkout; nothing
\* resolved ends the loop.
RunResolve(r) ==
    /\ rpc[r] = "resolve"
    /\ \E resolved \in BOOLEAN :
         LET d == script_root[r] IN
         IF ResolvedSomething(IF resolved THEN 1 ELSE 0)
         THEN /\ work' = [work EXCEPT ![d] = @ \cup {r}]
              /\ rpc' = [rpc EXCEPT ![r] = "test"]
         ELSE /\ rpc' = [rpc EXCEPT ![r] = "commit"]
              /\ UNCHANGED work
    /\ UNCHANGED << script_root, head, commits, pushed, rattempt, observed,
                    workflowVars, portVars, wtVars, pureVars >>

\* git_commit: git add -A and git commit put all changes of the checkout on
\* the branch it is on; a failure is only logged.
RunCommit(r) ==
    /\ rpc[r] = "commit"
    /\ \E git_ok \in BOOLEAN :
         LET d == script_root[r] IN
         IF git_ok
         THEN /\ commits' = [commits EXCEPT ![head[d]] = @ \cup work[d]]
              /\ work' = [work EXCEPT ![d] = {}]
         ELSE UNCHANGED << commits, work >>
    /\ rpc' = [rpc EXCEPT ![r] = "push"]
    /\ UNCHANGED << script_root, head, pushed, rattempt, observed,
                    workflowVars, portVars, wtVars, pureVars >>

\* git_push: git push -u origin <branch_name>; then main() ends.
RunPush(r) ==
    /\ rpc[r] = "push"
    /\ \E git_ok \in BOOLEAN :
         pushed' = IF git_ok THEN [pushed EXCEPT ![r] = commits[r]]
                   ELSE pushed
    /\ rpc' = [rpc EXCEPT ![r] = "exited"]
    /\ UNCHANGED << script_root, head, work, commits, rattempt, observed,
                    workflowVars, portVars, wtVars, pureVars >>

\* Each run is started from one of the checkouts.
RunsInit ==
    /\ WorkflowIdle
    /\ PortsIdle
    /\ WtIdle
    /\ PureIdle
    /\ script_root \in [Runs -> Roots]
    /\ head = [d \in Roots |-> 0]
    /\ work = [d \in Roots |-> {}]
    /\ commits = [b \in Branches |-> {}]
    /\ pushed = [b \in Branches |-> {}]
    /\ rpc = [r \in Runs |-> "start"]
    /\ rattempt = [r \in Runs |-> 0]
    /\ observed = [r \in Runs |-> [branch |-> r, changes |-> {}]]

RunsNext ==
    \/ \E r \in Runs : RunCheckout(r)
    \/ \E r \in Runs : RunVerify(r)
    \/ \E r \in Runs : RunResolve(r)
    \/ \E r \in Runs : RunCommit(r)
    \/ \E r \in Runs : RunPush(r)

RunsSpec == RunsInit /\ [][RunsNext]_vars

\* ------------------------------------------------------------------------
\* C19
\* ------------------------------------------------------------------------

\* C19: while a run is between its checkout and its exit, the checkout it
\* works in is on that run's branch and holds uncommitted changes of that
\* run only; the tests of a run ran on its branch with its changes only;
\* and a run's branch, locally and on origin, holds changes of that run
\* only.
C19_RunsIsolated ==
    \A r \in Runs :
       /\ rpc[r] \in {"test", "resolve", "commit", "push"} =>
             /\ head[script_root[r]] = r
             /\ work[script_root[r]] \subseteq {r}
       /\ observed[r].branch = r
       /\ observed[r].changes \subseteq {r}
       /\ commits[r] \subseteq {r}
       /\ pushed[r] \subseteq {r}

\* ------------------------------------------------------------------------
\* C22
\* ------------------------------------------------------------------------

\* C22: when an E2E verifier call returns success = false, the E2E loop is
\* Aborted: that call is the last E2E verifier call, no E2E remediator call
\* follows it, and the returned outcomes hold no failing outcome made up
\* from the execution error.
C22_E2EAbortStopsTheLoop ==
    \A k \in 1..Len(e2e_hist) :
       (e2e_hist[k].called /\ ~e2e_hist[k].success) =>
          /\ loop_state.e2e = "Aborted"
          /\ k = Len(e2e_hist)
          /\ e2e_hist[k].remediated = 0
          /\ \A i \in 1..Len(e2e_results) :
                e2e_results[i].cause # "execution_error"

\* ------------------------------------------------------------------------
\* C27
\* ------------------------------------------------------------------------

\* What run_tests_with_resolution returns besides the last response.
Returned == << results, passed_count, failed_count >>

\* After a verifier call that succeeded, the outcome list and the counts
\* are those parsed from the last response.
C27_State ==
    (UnitReturned /\ test_response # None) =>
       /\ passed_count + failed_count = Len(results)
       /\ test_response[1].success =>
             Returned =
                << parse_test_results(test_response[1].output).results,
                   parse_test_results(test_response[1].output).passed_count,
                   parse_test_results(test_response[1].output).failed_count >>

\* A verifier call that returns success = false does not leave the outcome
\* list and the counts as they were before the call.
C27_Step ==
    (Len(hist') = Len(hist) + 1 /\ ~hist'[Len(hist')].success) =>
       Returned' # Returned

\* C27: the outcome list and the counts returned by
\* run_tests_with_resolution belong to the verifier call of the returned
\* response: they are parsed from it when it succeeded, they are not left
\* as they were before the call (from the attempt before, or the initial
\* 0/0) when it failed, and the counts add up to the length of the list.
C27_ReturnDescribesLastCall == []C27_State /\ [][C27_Step]_vars

\* ------------------------------------------------------------------------
\* C28
\* ------------------------------------------------------------------------

\* C28: a verifier call that succeeds with unparsable output is the last
\* verifier call: the loop is Converged with an empty outcome list and
\* counts 0/0, no remediator call is made for it, and main goes on as after
\* a clean pass: the E2E tier is entered exactly when --skip-e2e is not
\* given, and the exit code is 0 exactly when the E2E tier counts no
\* failure.
C28_ParseFailureIsCleanPass ==
    \A k \in 1..Len(hist) :
       (hist[k].success /\ ~hist[k].parse_ok) =>
          /\ k = Len(hist)
          /\ calls.verifier = k
          /\ attempt = k
          /\ hist[k].remediated = 0
          /\ loop_state.unit = "Converged"
          /\ results = <<>>
          /\ passed_count = 0
          /\ failed_count = 0
          /\ pc \notin {"run_tests", "resolve"}
          /\ E2EReturned => (E2EStarted <=> ~skip_e2e)
          /\ pc = "exited" =>
                exit_code = IF e2e_failed_count = 0 THEN 0 ELSE 1

\* A run whose second verifier call gave unparsable output, that ran the
\* E2E tier and exited with 0.
C28_Witness ==
    /\ Len(hist) = 2
    /\ hist[2].success
    /\ ~hist[2].parse_ok
    /\ hist[1].resolved > 0
    /\ E2EStarted
    /\ calls.e2e_verifier > 0
    /\ pc = "exited"
    /\ exit_code = 0

\* ------------------------------------------------------------------------
\* C23
\* ------------------------------------------------------------------------

\* Process p takes a step of its running call.
Steps(p) == frame'[p] # frame[p]

C23_Step ==
    \A p \in Procs :
       (/\ wpc[p] = "create_add"
        /\ Steps(p)
        /\ ~tree'[frame[p].id].present) =>
          /\ wpc'[p] = "idle"
          /\ last'[p].op = "create"
          /\ last'[p].id = frame[p].id
          /\ last'[p].outcome = "CalledProcessError"
          /\ last'[p].eff = [NoEffects EXCEPT !.add = 1]
          /\ tree' = tree

\* C23: when git worktree add fails in a create_worktree call for an Absent
\* worktree, the call ends there with CalledProcessError after that one
\* git worktree add: no .env.local copy, no .ports.env, no npm install, and
\* the worktree stays Absent.
C23_CheckoutFailureIsFatal == [][C23_Step]_vars

\* A create_worktree call that failed at git worktree add.
C23_Witness ==
    /\ last[1].op = "create"
    /\ ~last[1].found_present
    /\ last[1].outcome = "CalledProcessError"
    /\ last[1].eff.add = 1
    /\ last[1].eff.install = 0
    /\ ~tree[last[1].id].present

\* ------------------------------------------------------------------------
\* C24
\* ------------------------------------------------------------------------

\* npm install fails: the call ends with CalledProcessError after one
\* npm install, and the worktree stays as checked out, with its .ports.env.
C24_InstallFails ==
    \A p \in Procs :
       (/\ wpc[p] = "create_install"
        /\ Steps(p)
        /\ ~tree'[frame[p].id].installed) =>
          /\ wpc'[p] = "idle"
          /\ last'[p].outcome = "CalledProcessError"
          /\ last'[p].eff.add = 1
          /\ last'[p].eff.ports = 1
          /\ last'[p].eff.install = 1
          /\ tree' = tree
          /\ tree'[frame[p].id].present
          /\ tree'[frame[p].id].ports_env =
                to_env_dict(allocate_ports(frame[p].id))

\* The next create_worktree for that identifier returns the path and the
\* ports, and leaves the worktree without its dependencies.
C24_NextCreate ==
    \A p \in Procs :
       (/\ Returns(p, "create")
        /\ last'[p].found_present
        /\ created[last'[p].id].outcome = "CalledProcessError") =>
          LET r == last'[p] IN
          /\ r.outcome = "ok"
          /\ r.path = get_worktree_path(r.id)
          /\ r.ports = allocate_ports(r.id)
          /\ r.eff = NoEffects
          /\ tree' = tree
          /\ ~tree'[r.id].installed

\* C24: a failing npm install ends create_worktree with CalledProcessError
\* after one install attempt and leaves the worktree Present with its
\* checkout and .ports.env; the create_worktree call after it for the same
\* identifier returns the path and ports without running npm install, so
\* the worktree stays without its dependencies.
C24_BrokenWorktreeStays == [][C24_InstallFails /\ C24_NextCreate]_vars

\* A create_worktree that returned normally for a worktree whose install
\* had failed.
C24_Witness ==
    /\ last[1].op = "create"
    /\ last[1].found_present
    /\ last[1].outcome = "ok"
    /\ last[1].eff.install = 0
    /\ tree[last[1].id].present
    /\ tree[last[1].id].ports_env # <<>>
    /\ ~tree[last[1].id].installed

\* ------------------------------------------------------------------------
\* model_selection.py: get_model
\* ------------------------------------------------------------------------

\* Calls of get_model per argument triple.
MaxSelCalls == 2

HEAVY_COMMANDS ==
    { "/implement", "/feature", "/bug", "/chore", "/resolve_failed_test",
      "/resolve_failed_e2e_test", "/document", "/prd", "/migration",
      "/edge_function" }

FAST_COMMANDS ==
    { "/classify_issue", "/find_plan_file", "/generate_branch_name",
      "/commit", "/pull_request", "/validate", "/run_tests",
      "/design_audit", "/component", "/hook", "/rls_policy" }

\* Command strings in neither set.
OtherCommands == { "", "implement", "/test", "/e2e_test", "/Implement" }

Commands == HEAVY_COMMANDS \cup FAST_COMMANDS \cup OtherCommands

\* ModelSet members, by value.
ModelSets == { "base", "heavy" }

\* ModelName
ModelNames == { "sonnet", "opus", "haiku" }

\* MODEL_SET_DEFAULTS
MODEL_SET_DEFAULTS == [ms \in ModelSets |-> IF ms = "base" THEN "sonnet"
                                            ELSE "opus"]

\* Truth value of an optional string or enum member: None and "" are false.
Truthy(opt) == opt # None /\ opt[1] # ""

ForcedMutant(force_model) == FALSE
\* if force_model:
Forced(force_model) == Truthy(force_model)

\* get_model(command, model_set, force_model)
get_model(command, model_set, force_model) ==
    IF Forced(force_model) THEN force_model[1]
    ELSE IF Truthy(model_set) THEN MODEL_SET_DEFAULTS[model_set[1]]
    ELSE IF command \in HEAVY_COMMANDS THEN "opus"
    ELSE IF command \in FAST_COMMANDS THEN "sonnet"
    ELSE "sonnet"

\* Any command string, with or without a model set and a forced model; ""
\* may be handed in for force_model.
SelInit ==
    /\ WorkflowIdle
    /\ PortsIdle
    /\ WtIdle
    /\ RunsIdle
    /\ sel_args \in [command : Commands,
                     model_set : {None} \cup { << ms >> : ms \in ModelSets },
                     force_model : {None, << "" >>}
                                     \cup { << m >> : m \in ModelNames }]
    /\ sel_log = <<>>
    /\ adw_id2 = <<>>
    /\ path_log = <<>>
    /\ listing = <<>>
    /\ listed = <<>>

\* One call get_model(command, model_set, force_model); the function reads
\* its arguments and module constants only.
GetModel ==
    /\ Len(sel_log) < MaxSelCalls
    /\ sel_log' = Append(sel_log, get_model(sel_args.command,
                                            sel_args.model_set,
                                            sel_args.force_model))
    /\ UNCHANGED << sel_args, pairVars, listVars, workflowVars, portVars,
                    wtVars, runVars >>

SelNext == GetModel

SelSpec == SelInit /\ [][SelNext]_vars

\* ------------------------------------------------------------------------
\* C21
\* ------------------------------------------------------------------------

MaxPairLen == 5

\* Characters of the identifiers of a pair.
PairChars == { "0", "1", "/" }

PairIds == UNION { [1..n -> PairChars] : n \in 0..MaxPairLen }

PairInit ==
    /\ WorkflowIdle
    /\ WtIdle
    /\ RunsIdle
    /\ adw_id \in PairIds
    /\ adw_id2 \in PairIds
    /\ port_log = <<>>
    /\ path_log = <<>>
    /\ sel_args = [command |-> "", model_set |-> <<>>, force_model |-> <<>>]
    /\ sel_log = <<>>
    /\ listing = <<>>
    /\ listed = <<>>

\* allocate_ports and get_worktree_path for both identifiers.
AllocatePair ==
    /\ port_log = <<>>
    /\ port_log' = << allocate_ports(adw_id), allocate_ports(adw_id2) >>
    /\ path_log' = << get_worktree_path(adw_id), get_worktree_path(adw_id2) >>
    /\ UNCHANGED << adw_id, adw_id2, selVars, listVars, workflowVars,
                    wtVars, runVars >>

PairNext == AllocatePair

PairSpec == PairInit /\ [][PairNext]_vars

\* ------------------------------------------------------------------------
\* C26
\* ------------------------------------------------------------------------

\* The padded 4-character prefix as a base-16 number, modulo 15.
RefOffset(id) == RefHexValue(RefPrefix(id)) % 15

\* Two distinct identifiers that both get ports get the same ports exactly
\* when their prefixes are equal modulo 15; so they do when they are equal
\* in their first 4 characters.
C26_Ports ==
    (/\ port_log # <<>>
     /\ adw_id # adw_id2
     /\ IsHexPrefix(adw_id)
     /\ IsHexPrefix(adw_id2)) =>
       /\ port_log[1].ok
       /\ port_log[2].ok
       /\ port_log[1] = port_log[2] <=> RefOffset(adw_id) = RefOffset(adw_id2)
       /\ (/\ Len(adw_id) >= 4
           /\ Len(adw_id2) >= 4
           /\ SubSeq(adw_id, 1, 4) = SubSeq(adw_id2, 1, 4)) =>
             port_log[1] = port_log[2]

HasSlash(id) == \E i \in 1..Len(id) : id[i] = "/"

MaxListed == 2

RECURSIVE JoinParts(_)
\* The components joined with "/".
JoinParts(parts) ==
    IF parts = <<>> THEN <<>>
    ELSE IF Len(parts) = 1 THEN parts[1]
    ELSE parts[1] \o << "/" >> \o JoinParts(Tail(parts))

\* str(path), as a sequence of characters
PathStr(path) ==
    (IF path.anchor = "/" THEN << "/" >>
     ELSE IF path.anchor = "//" THEN << "/", "/" >> ELSE <<>>)
      \o JoinParts(path.parts)

\* trees_dir = str(get_trees_dir())
TreesStr == PathStr(get_trees_dir)

\* Paths of worktrees: the main checkout, the trees directory, a worktree
\* in it, siblings of it whose names start with "trees", and a worktree
\* outside the project.
ListPaths ==
    { PathStr(get_project_root),
      TreesStr,
      TreesStr \o << "/", "a" >>,
      TreesStr \o << "-", "o", "l", "d" >>,
      TreesStr \o << "2", "/", "a" >>,
      << "/", "o" >> }

\* A worktree as git knows it: on a branch, or with a detached HEAD.
ListEntries == [path : ListPaths, head : {"sha"}, on_branch : BOOLEAN]

ListEntryLists == UNION { [1..n -> ListEntries] : n \in 0..MaxListed }

RECURSIVE PorcelainLines(_)
\* stdout of git worktree list --porcelain, stripped and split into lines:
\* per worktree the lines "worktree <path>", "HEAD <sha>" and
\* "branch <ref>" or "detached", with an empty line between worktrees.
PorcelainLines(entries) ==
    IF entries = <<>> THEN <<>>
    ELSE LET e == Head(entries) IN
         << [kind |-> "worktree", value |-> << e.path >>],
            [kind |-> "HEAD", value |-> << e.head >>],
            IF e.on_branch
            THEN [kind |-> "branch", value |-> << "refs/heads/b" >>]
            ELSE [kind |-> "detached", value |-> <<>>] >>
          \o (IF Tail(entries) = <<>> THEN <<>>
              ELSE << [kind |-> "empty", value |-> <<>>] >>)
          \o PorcelainLines(Tail(entries))

\* current = {}
EmptyDict ==
    [path |-> None, head |-> None, branch |-> None, detached |-> FALSE]

RECURSIVE ParseLines(_, _, _)
\* The for loop over the lines, and the append of the last dict.
ParseLines(lines, current, worktrees) ==
    IF lines = <<>>
    THEN IF current # EmptyDict THEN Append(worktrees, current)
         ELSE worktrees
    ELSE LET line == Head(lines) IN
         IF line.kind = "worktree"
         THEN ParseLines(Tail(lines),
                         [EmptyDict EXCEPT !.path = line.value],
                         IF current # EmptyDict
                         THEN Append(worktrees, current) ELSE worktrees)
         ELSE IF line.kind = "HEAD"
         THEN ParseLines(Tail(lines), [current EXCEPT !.head = line.value],
                         worktrees)
         ELSE IF line.kind = "branch"
         THEN ParseLines(Tail(lines), [current EXCEPT !.branch = line.value],
                         worktrees)
         ELSE IF line.kind = "detached"
         THEN ParseLines(Tail(lines), [current EXCEPT !.detached = TRUE],
                         worktrees)
         ELSE ParseLines(Tail(lines), current, worktrees)

\* str.startswith
StartsWith(s, prefix) ==
    /\ Len(s) >= Len(prefix)
    /\ SubSeq(s, 1, Len(prefix)) = prefix

\* w.get("path", "")
PathOf(w) == IF w.path = None THEN <<>> ELSE w.path[1]

\* w.get("path", "").startswith(trees_dir)
IsAdwWorktree(w) == StartsWith(PathOf(w), TreesStr)

\* list_worktrees(): parse the listing, keep the worktrees under trees/
list_worktrees(stdout_lines) ==
    SelectSeq(ParseLines(stdout_lines, EmptyDict, <<>>), IsAdwWorktree)

\* git knows any short list of worktrees.
ListInit ==
    /\ WorkflowIdle
    /\ PortsIdle
    /\ WtIdle
    /\ RunsIdle
    /\ listing \in ListEntryLists
    /\ listed = <<>>
    /\ sel_args = [command |-> "", model_set |-> <<>>, force_model |-> <<>>]
    /\ sel_log = <<>>
    /\ adw_id2 = <<>>
    /\ path_log = <<>>

\* One call list_worktrees(): every call runs git worktree list anew.
ListWorktrees ==
    /\ Len(listed) < 2
    /\ listed' = Append(listed, list_worktrees(PorcelainLines(listing)))
    /\ UNCHANGED << listing, selVars, pairVars, workflowVars, portVars,
                    wtVars, runVars >>

ListNext == ListWorktrees

ListSpec == ListInit /\ [][ListNext]_vars

\* ------------------------------------------------------------------------
\* C25
\* ------------------------------------------------------------------------

\* The path is the trees directory or lies below it.
UnderTrees(path) ==
    /\ StartsWith(path, TreesStr)
    /\ Len(path) = Len(TreesStr) \/ path[Len(TreesStr) + 1] = "/"

\* The dict list_worktrees makes of a worktree git reports.
DictOf(e) ==
    [path |-> << e.path >>, head |-> << e.head >>,
     branch |-> IF e.on_branch THEN << "refs/heads/b" >> ELSE None,
     detached |-> ~e.on_branch]

RECURSIVE ExpectedList(_)
\* The worktrees under the trees directory, in listing order.
ExpectedList(entries) ==
    IF entries = <<>> THEN <<>>
    ELSE (IF UnderTrees(Head(entries).path) THEN << DictOf(Head(entries)) >>
          ELSE <<>>) \o ExpectedList(Tail(entries))

\* C25: every list_worktrees call returns, in listing order and each with
\* its own path, head and branch or detached mark, exactly the reported
\* worktrees whose path is the trees directory or lies below it; not the
\* main checkout, and not a sibling such as trees-old or trees2.
C25_ListIsUnderTrees ==
    \A i \in 1..Len(listed) : listed[i] = ExpectedList(listing)

\* Apart from siblings of the trees directory whose name starts with
\* "trees", list_worktrees returns what C25 says.
C25_ApartFromSiblings ==
    (\A k \in 1..Len(listing) :
        StartsWith(listing[k].path, TreesStr) => UnderTrees(listing[k].path))
      => C25_ListIsUnderTrees

\* ------------------------------------------------------------------------
\* worktree_ops.py: two processes
\* ------------------------------------------------------------------------

\* Two processes call create_worktree; their steps interleave in any order.
RaceNext ==
    \E p \in Procs :
       \/ \E id \in WtIds : CreateCall(p, id)
       \/ CreateAdd(p)
       \/ CreateFiles(p)
       \/ CreateInstall(p)

RaceSpec == WtInit /\ [][RaceNext]_vars

\* The worktree an earlier create_worktree(id) left at time 0: complete for
\* an identifier that has ports, the bare checkout for one that has none.
CreatedTree(id) ==
    IF allocate_ports(id).ok
    THEN [present |-> TRUE, mtime |-> 0, env_local |-> env_local,
          ports_env |-> to_env_dict(allocate_ports(id)), installed |-> TRUE]
    ELSE [Absent EXCEPT !.present = TRUE]

\* What that create_worktree(id) returned.
CreatedReturn(id) ==
    IF allocate_ports(id).ok
    THEN [outcome |-> "ok", path |-> get_worktree_path(id),
          ports |-> allocate_ports(id), add |-> 1]
    ELSE [outcome |-> "ValueError", path |-> NoPath, ports |-> Raised,
          add |-> 1]

\* Some worktrees were created at time 0; both processes are idle.
SweepInit ==
    /\ WorkflowIdle
    /\ PortsIdle
    /\ RunsIdle
    /\ PureIdle
    /\ env_local \in BOOLEAN
    /\ stray_file \in BOOLEAN
    /\ \E made \in SUBSET WtIds :
          /\ tree = [id \in WtIds |->
                        IF id \in made THEN CreatedTree(id) ELSE Absent]
          /\ created = [id \in WtIds |->
                           IF id \in made THEN CreatedReturn(id)
                           ELSE NoCreate]
          /\ trees_dir = (made # {} \/ stray_file)
    /\ clock = 0
    /\ wpc = [p \in Procs |-> "idle"]
    /\ frame = [p \in Procs |-> NoFrame]
    /\ sweep = [p \in Procs |-> NoSweep]
    /\ last = [p \in Procs |-> NoReturn]

\* Process 1 sweeps with cleanup_stale_worktrees while process 2 calls
\* remove_worktree; their steps interleave in any order.
SweepNext ==
    \/ \E hours \in MaxAgeChoices : CleanupCall(1, hours)
    \/ CleanupEntry(1)
    \/ \E id \in WtIds : RemoveCall(2, id)
    \/ \E p \in Procs : RemoveCheck(p)
    \/ \E p \in Procs : RemoveGit(p)
    \/ Tick

SweepSpec == SweepInit /\ [][SweepNext]_vars


\* ------------------------------------------------------------------------
\* C29
\* ------------------------------------------------------------------------

\* A create_worktree call for an identifier with ports that saw the worktree
\* Absent, and whose checkout step comes after another process made the
\* worktree, does not end in an error.
C29_Step ==
    \A p \in Procs :
       (/\ wpc[p] = "create_add"
        /\ ~frame[p].found_present
        /\ allocate_ports(frame[p].id).ok
        /\ tree[frame[p].id].present
        /\ Steps(p))
         => ~(Returns(p, "create") /\ last'[p].outcome # "ok")

\* C29: when two processes call create_worktree for one run id while the
\* worktree is Absent, then under every interleaving of their existence
\* checks and checkout steps both calls return the path without an error.
C29_RaceReturnsThePath == [][C29_Step]_vars

\* ------------------------------------------------------------------------
\* C30
\* ------------------------------------------------------------------------

\* C30: the count cleanup_stale_worktrees returns is at most the number of
\* worktrees this sweep removed itself, also when another process removes a
\* stale worktree between the scan and the sweep's remove_worktree call.
C30_CountIsOwnRemovals ==
    \A p \in Procs :
       last[p].op = "cleanup"
         => last[p].count <= Cardinality(last[p].sweep.removed)

=============================================================================
